---- MODULE Spec2Model ----
(***************************************************************************)
(* Fixed-point kernels of the PULPino port of CMSIS-DSP: the Q15           *)
(* convolutions (riscv_conv_fast_q15, riscv_conv_opt_q15), the Q15         *)
(* matrix products (riscv_mat_mult_fast_q15, riscv_mat_cmplx_mult_q15),    *)
(* the conversions riscv_q15_to_q7 and riscv_q7_to_q15 and the             *)
(* element-wise riscv_abs_q31, riscv_offset_q15, riscv_shift_q7 and        *)
(* riscv_fill_q7.                                                          *)
(* Buffers are functions over 0..n-1 (the C indices), pointers are         *)
(* offsets into them.                                                      *)
(***************************************************************************)
EXTENDS Integers, Sequences, FiniteSets, TLC

\* Longest input sequence of a convolution call.
MaxLen == 11

----------------------------------------------------------------------------
(* Wide integers.  A product of two Q15 values reaches 2^30 and a sum of   *)
(* two of them 2^31, so accumulators are kept as hi * 2^15 + lo with       *)
(* 0 <= lo < 2^15.  The 15-bit right shift of an accumulator is its hi.    *)

WNorm(h, l) == [hi |-> h + (l \div 32768), lo |-> l % 32768]

W0 == [hi |-> 0, lo |-> 0]

WMul(a, b) == WNorm(0, a * b)

WAdd(x, y) == WNorm(x.hi + y.hi, x.lo + y.lo)

WSub(x, y) == WNorm(x.hi - y.hi, x.lo - y.lo)

\* The value kept by a 32-bit register (q31_t): two's complement wrap.
Wrap32(x) == [hi |-> ((x.hi + 65536) % 131072) - 65536, lo |-> x.lo]

Fits32(x) == x.hi >= -65536 /\ x.hi <= 65535

\* (q15_t) of a wider value: the low 16 bits, two's complement.
CastQ15(v) == ((v + 32768) % 65536) - 32768

\* __SSAT(v, 16) and clip(v, -32768, 32767).
SSAT16(v) == IF v > 32767 THEN 32767 ELSE IF v < -32768 THEN -32768 ELSE v

clip(v, lo, hi) == IF v < lo THEN lo ELSE IF v > hi THEN hi ELSE v

\* dotpv2: the 2-lane dot product of two shortV, a 32-bit result.
dotpv2(u, v) == Wrap32(WAdd(WMul(u[1], v[1]), WMul(u[2], v[2])))

\* sumdotpv2: the 2-lane dot product added to a 32-bit accumulator.
sumdotpv2(u, v, acc) ==
    Wrap32(WAdd(acc, WAdd(WMul(u[1], v[1]), WMul(u[2], v[2]))))

\* mac(a, b, acc) and  sum += (q31_t) a * b  on a q31_t accumulator.
mac(a, b, acc) == Wrap32(WAdd(acc, WMul(a, b)))

----------------------------------------------------------------------------
VARIABLES
    srcA, srcB,     \* the two input sequences of the convolution calls
    pScratch1,      \* scratch buffers of riscv_conv_opt_q15
    pScratch2,
    matA, matB,     \* the real matrix instances {numRows, numCols, pData}
    cmplxA, cmplxB, \* the complex matrix instances (pData interleaves re, im)
    dstInst,        \* numRows and numCols of the destination instance (its pData is pDst)
    pState,         \* scratch buffer of the matrix kernels
    RISCV_MATH_MATRIX_CHECK,    \* whether the build defines the macro
    status,         \* status returned by the matrix call
    junk,           \* what a read outside a buffer, or of a cell never written, yields
    callNo,         \* position in the call list of the call being executed
    pc,             \* position inside the running kernel
    loc,            \* the running kernel's local variables
    pDst,           \* destination buffer of the running call
    wlog,           \* the stores of the running call, in order
    results,        \* destination buffers and store logs of the finished calls
    vecSrc,         \* the input vector of the element-wise and conversion kernels
    offset,         \* the offset argument of riscv_offset_q15
    shiftBits,      \* the shiftBits argument of riscv_shift_q7
    kernel,         \* the element-wise or conversion kernel the caller exercises
    fillValue,      \* the value argument of riscv_fill_q7
    vecBlockSize,   \* the blockSize argument of the kernel
    mem,            \* the address space two concurrent kernel invocations share
    thr,            \* the two invocations: kernel, position, locals, buffers, accesses
    spiFile,        \* the lines of the file the SPI loader is started on
    spiPc,          \* position inside the SPI loader
    spiLoc,         \* locals of main and process_file
    spiEnv,         \* open descriptors, live allocations, the control register, faults so far
    spiCalls,       \* the spi_load calls made, with their system calls
    ctrl,           \* the pulp_ctrl calls made
    int_handlers,   \* the interrupt handlers table
    ICP,            \* the bits last written to the interrupt clear-pending register
    intPc,          \* position of the program that registers handlers
    intLoc,         \* the arguments of the int_add call in progress
    intCalls,       \* the int_add calls that have returned
    intDisp,        \* mcause and the handler calls of the last int_main
    intWritten      \* the table indices stored to so far

convIn == <<srcA, srcB>>

matIn == <<matA, matB, cmplxA, cmplxB, dstInst, RISCV_MATH_MATRIX_CHECK>>

vecIn == <<vecSrc, offset, shiftBits, kernel, fillValue, vecBlockSize>>

\* The variables of the concurrent invocations.
parV == <<mem, thr>>

\* The variables of the SPI loader.
spiV == <<spiFile, spiPc, spiLoc, spiEnv, spiCalls, ctrl>>

\* The variables of the interrupt table.
intV == <<int_handlers, ICP, intPc, intLoc, intCalls, intDisp, intWritten>>

\* The variables the single-call specifications leave alone.
extV == <<parV, spiV, intV>>

\* The variables of the single-call specifications.
kernV == <<srcA, srcB, pScratch1, pScratch2, matA, matB, cmplxA, cmplxB, dstInst,
           pState, RISCV_MATH_MATRIX_CHECK, status, junk, callNo, pc, loc, pDst,
           wlog, results, vecSrc, offset, shiftBits, kernel, fillValue, vecBlockSize>>

vars == <<kernV, extV>>

\* No concurrent invocations.
ParIdle == mem = <<>> /\ thr = <<>>

\* The SPI loader is not running.
SpiIdle ==
    /\ spiFile = <<>> /\ spiPc = "none" /\ spiLoc = <<>>
    /\ spiEnv = <<>> /\ spiCalls = <<>> /\ ctrl = <<>>

\* No interrupt table.
IntIdle ==
    /\ int_handlers = <<>> /\ ICP = {} /\ intPc = "none" /\ intLoc = <<>>
    /\ intCalls = <<>> /\ intDisp = <<>> /\ intWritten = {}

ExtIdle == ParIdle /\ SpiIdle /\ IntIdle

Arr(n, v) == [i \in 0 .. n - 1 |-> v]

Len0(f) == Cardinality(DOMAIN f)

Rd(buf, i) == IF i \in DOMAIN buf THEN buf[i] ELSE junk

\* A store through a pointer; a store outside the buffer leaves the buffer as it is
\* (the store log records its index).
Wr(buf, i, v) == IF i \in DOMAIN buf THEN [buf EXCEPT ![i] = v] ELSE buf

\* A matrix instance of no rows.
NoMat == [numRows |-> 0, numCols |-> 0, pData |-> <<>>]

Max(a, b) == IF a >= b THEN a ELSE b

Min(a, b) == IF a <= b THEN a ELSE b

----------------------------------------------------------------------------
(* riscv_conv_fast_q15 *)

\* k multiply-accumulates  sum = mac(*px++, *py--, sum).
RECURSIVE MacLoop(_, _, _, _, _, _)
MacLoop(X, Y, sum, px, py, k) ==
    IF k = 0 THEN [sum |-> sum, px |-> px, py |-> py]
    ELSE MacLoop(X, Y, mac(Rd(X, px), Rd(Y, py), sum), px + 1, py - 1, k - 1)

\* The entry with a plateau of srcALen - srcBLen outputs (one too few).
FastEntry_ShortPlateau(pA, pB) ==
    LET swap == ~(Len0(pA) >= Len0(pB))
        X == IF swap THEN pB ELSE pA
        Y == IF swap THEN pA ELSE pB
        aLen == Len0(X)
        bLen == Len0(Y)
    IN  [X |-> X, Y |-> Y, srcALen |-> aLen, srcBLen |-> bLen,
         pIn1 |-> 0, pIn2 |-> 0, px |-> 0, py |-> 0, pSrc1 |-> 0, pSrc2 |-> 0,
         pOut |-> 0, count |-> 1,
         blockSize1 |-> bLen - 1,
         blockSize2 |-> aLen - bLen,
         blockSize3 |-> bLen - 1,
         blkCnt |-> 0, j |-> 0]

\* Entry of the function: the operand swap and the three stage counts.
FastEntry(pA, pB) ==
    LET swap == ~(Len0(pA) >= Len0(pB))
        X == IF swap THEN pB ELSE pA
        Y == IF swap THEN pA ELSE pB
        aLen == Len0(X)
        bLen == Len0(Y)
    IN  [X |-> X, Y |-> Y, srcALen |-> aLen, srcBLen |-> bLen,
         pIn1 |-> 0, pIn2 |-> 0, px |-> 0, py |-> 0, pSrc1 |-> 0, pSrc2 |-> 0,
         pOut |-> 0, count |-> 1,
         blockSize1 |-> bLen - 1,
         blockSize2 |-> aLen - (bLen - 1),
         blockSize3 |-> bLen - 1,
         blkCnt |-> 0, j |-> 0]

FastStage2Init(l) ==
    [l EXCEPT !.px = l.pIn1,
              !.pSrc2 = l.pIn2 + (l.srcBLen - 1),
              !.py = l.pIn2 + (l.srcBLen - 1),
              !.count = 0,
              !.blkCnt = IF l.srcBLen >= 4 THEN l.blockSize2 \div 4
                         ELSE l.blockSize2]

FastStage3Init(l) ==
    [l EXCEPT !.pSrc1 = (l.pIn1 + l.srcALen) - (l.srcBLen - 1),
              !.px = (l.pIn1 + l.srcALen) - (l.srcBLen - 1),
              !.pSrc2 = l.pIn2 + (l.srcBLen - 1),
              !.pIn2 = l.pIn2 + (l.srcBLen - 1) - 1,
              !.py = l.pIn2 + (l.srcBLen - 1) - 1,
              !.j = l.blockSize3 \div 4]

\* The loop head the control reaches next, from the head of loop p with locals l.
RECURSIVE FastFlow(_, _)
FastFlow(p, l) ==
    CASE p = "s1a" ->
           IF l.count < 4 /\ l.blockSize1 > 0 THEN [pc |-> "fast_s1a", loc |-> l]
           ELSE FastFlow("s1b", [l EXCEPT !.py = l.py - 1])
      [] p = "s1b" ->
           IF l.blockSize1 > 0 THEN [pc |-> "fast_s1b", loc |-> l]
           ELSE IF l.srcBLen >= 4 THEN FastFlow("s2u", FastStage2Init(l))
           ELSE FastFlow("s2n", FastStage2Init(l))
      [] p = "s2u" ->
           IF l.blkCnt > 0 THEN [pc |-> "fast_s2u", loc |-> l]
           ELSE FastFlow("s2r", [l EXCEPT !.blkCnt = l.blockSize2 % 4])
      [] p = "s2r" ->
           IF l.blkCnt > 0 THEN [pc |-> "fast_s2r", loc |-> l]
           ELSE FastFlow("s3a", FastStage3Init(l))
      [] p = "s2n" ->
           IF l.blkCnt > 0 THEN [pc |-> "fast_s2n", loc |-> l]
           ELSE FastFlow("s3a", FastStage3Init(l))
      [] p = "s3a" ->
           IF l.j > 0 /\ l.blockSize3 > 0 THEN [pc |-> "fast_s3a", loc |-> l]
           ELSE FastFlow("s3b", [l EXCEPT !.py = l.py + 1])
      [] OTHER ->
           IF l.blockSize3 > 0 THEN [pc |-> "fast_s3b", loc |-> l]
           ELSE [pc |-> "ret", loc |-> l]

\* Stage 1, MAC count below 4: one output, stored as (q15_t)(sum >> 15).
FastStage1Short(l) ==
    LET r == MacLoop(l.X, l.Y, W0, l.px, l.py, l.count)
    IN  [out |-> <<CastQ15(r.sum.hi)>>,
         acc |-> <<r.sum>>,
         loc |-> [l EXCEPT !.pOut = l.pOut + 1,
                           !.py = l.pIn2 + l.count,
                           !.px = l.pIn1,
                           !.count = l.count + 1,
                           !.blockSize1 = l.blockSize1 - 1]]

\* Stage 1, MAC count 4 and more: py++, count MACs (4 at a time, then count % 4).
FastStage1Unrolled(l) ==
    LET r1 == MacLoop(l.X, l.Y, W0, l.px, l.py + 1, 4 * (l.count \div 4))
        r == MacLoop(l.X, l.Y, r1.sum, r1.px, r1.py, l.count % 4)
    IN  [out |-> <<CastQ15(r.sum.hi)>>,
         acc |-> <<r.sum>>,
         loc |-> [l EXCEPT !.pOut = l.pOut + 1,
                           !.py = l.pIn2 + (l.count - 1),
                           !.px = l.pIn1,
                           !.count = l.count + 1,
                           !.blockSize1 = l.blockSize1 - 1]]

\* One pass of the do { ... } while(--k) loop of the unrolled stage 2.
\* s holds acc0..acc3, VectInA..VectInE, px and py.
FastStage2Taps4(X, Y, s) ==
    LET C1 == <<Rd(Y, s.py), Rd(Y, s.py + 1)>>
        a0 == sumdotpv2(s.VectInA, C1, s.acc0)
        a1 == sumdotpv2(s.VectInB, C1, s.acc1)
        D  == <<Rd(X, s.px), Rd(X, s.px + 1)>>
        E  == <<Rd(X, s.px + 1), Rd(X, s.px + 2)>>
        a2 == sumdotpv2(D, C1, s.acc2)
        a3 == sumdotpv2(E, C1, s.acc3)
        C2 == <<Rd(Y, s.py - 2), Rd(Y, s.py - 1)>>
        b0 == sumdotpv2(D, C2, a0)
        b1 == sumdotpv2(E, C2, a1)
        A  == <<Rd(X, s.px + 2), Rd(X, s.px + 3)>>
        B  == <<Rd(X, s.px + 3), Rd(X, s.px + 4)>>
        b2 == sumdotpv2(A, C2, a2)
        b3 == sumdotpv2(B, C2, a3)
    IN  [acc0 |-> b0, acc1 |-> b1, acc2 |-> b2, acc3 |-> b3,
         VectInA |-> A, VectInB |-> B, VectInC |-> C2, VectInD |-> D, VectInE |-> E,
         px |-> s.px + 4, py |-> s.py - 4]

RECURSIVE FastStage2DoWhile(_, _, _, _)
FastStage2DoWhile(X, Y, s, k) ==
    LET t == FastStage2Taps4(X, Y, s)
    IN  IF k - 1 = 0 THEN t ELSE FastStage2DoWhile(X, Y, t, k - 1)

\* The remaining srcBLen % 4 taps of the unrolled stage 2.
FastStage2Tail(X, Y, s, k) ==
    CASE k = 1 ->
           LET C == <<s.VectInC[2], 0>>
               D == <<Rd(X, s.px), Rd(X, s.px + 1)>>
           IN  [s EXCEPT !.VectInC = C, !.VectInD = D, !.px = s.px + 1,
                         !.acc0 = sumdotpv2(s.VectInA, C, s.acc0),
                         !.acc1 = sumdotpv2(s.VectInB, C, s.acc1),
                         !.acc2 = sumdotpv2(s.VectInB, C, s.acc2),
                         !.acc3 = sumdotpv2(D, C, s.acc3)]
      [] k = 2 ->
           LET C == <<Rd(Y, s.py), Rd(Y, s.py + 1)>>
               E == <<Rd(X, s.px), Rd(X, s.px + 1)>>
               D == <<Rd(X, s.px + 1), Rd(X, s.px + 2)>>
           IN  [s EXCEPT !.VectInC = C, !.VectInD = D, !.VectInE = E,
                         !.px = s.px + 2,
                         !.acc0 = sumdotpv2(s.VectInA, C, s.acc0),
                         !.acc1 = sumdotpv2(s.VectInB, C, s.acc1),
                         !.acc2 = sumdotpv2(E, C, s.acc2),
                         !.acc3 = sumdotpv2(D, C, s.acc3)]
      [] k = 3 ->
           LET C  == <<Rd(Y, s.py), Rd(Y, s.py + 1)>>
               E  == <<Rd(X, s.px), Rd(X, s.px + 1)>>
               D  == <<Rd(X, s.px + 1), Rd(X, s.px + 2)>>
               a0 == sumdotpv2(s.VectInA, C, s.acc0)
               a1 == sumdotpv2(s.VectInB, C, s.acc1)
               a2 == sumdotpv2(E, C, s.acc2)
               a3 == sumdotpv2(D, C, s.acc3)
               C2 == <<C[2], 0>>
               E2 == <<Rd(X, s.px + 2), Rd(X, s.px + 3)>>
           IN  [s EXCEPT !.VectInC = C2, !.VectInD = D, !.VectInE = E2,
                         !.px = s.px + 3,
                         !.acc0 = sumdotpv2(s.VectInB, C2, a0),
                         !.acc1 = sumdotpv2(D, C2, a1),
                         !.acc2 = sumdotpv2(D, C2, a2),
                         !.acc3 = sumdotpv2(E2, C2, a3)]
      [] OTHER -> s

\* Stage 2, srcBLen >= 4: four outputs, stored through clip.
FastStage2Block4(l) ==
    LET X == l.X
        Y == l.Y
        s0 == [acc0 |-> W0, acc1 |-> W0, acc2 |-> W0, acc3 |-> W0,
               VectInA |-> <<Rd(X, l.px), Rd(X, l.px + 1)>>,
               VectInB |-> <<Rd(X, l.px + 1), Rd(X, l.px + 2)>>,
               VectInC |-> <<0, 0>>, VectInD |-> <<0, 0>>, VectInE |-> <<0, 0>>,
               px |-> l.px + 2, py |-> l.py - 1]
        s1 == FastStage2DoWhile(X, Y, s0, l.srcBLen \div 4)
        s2 == FastStage2Tail(X, Y, s1, l.srcBLen % 4)
    IN  [out |-> <<clip(s2.acc0.hi, -32768, 32767), clip(s2.acc1.hi, -32768, 32767),
                   clip(s2.acc2.hi, -32768, 32767), clip(s2.acc3.hi, -32768, 32767)>>,
         acc |-> <<s2.acc0, s2.acc1, s2.acc2, s2.acc3>>,
         loc |-> [l EXCEPT !.pOut = l.pOut + 4,
                           !.count = l.count + 4,
                           !.px = l.pIn1 + (l.count + 4),
                           !.py = l.pSrc2,
                           !.blkCnt = l.blkCnt - 1]]

\* Stage 2, one output at a time (blockSize2 % 4 outputs, or all when srcBLen < 4).
FastStage2Single(l) ==
    LET r == MacLoop(l.X, l.Y, W0, l.px, l.py, l.srcBLen)
    IN  [out |-> <<CastQ15(r.sum.hi)>>,
         acc |-> <<r.sum>>,
         loc |-> [l EXCEPT !.pOut = l.pOut + 1,
                           !.count = l.count + 1,
                           !.px = l.pIn1 + (l.count + 1),
                           !.py = l.pSrc2,
                           !.blkCnt = l.blkCnt - 1]]

\* Stage 3, first part: py++, blockSize3 MACs.
FastStage3Unrolled(l) ==
    LET r == MacLoop(l.X, l.Y, W0, l.px, l.py + 1, l.blockSize3)
    IN  [out |-> <<CastQ15(r.sum.hi)>>,
         acc |-> <<r.sum>>,
         loc |-> [l EXCEPT !.pOut = l.pOut + 1,
                           !.pSrc1 = l.pSrc1 + 1,
                           !.px = l.pSrc1 + 1,
                           !.py = l.pIn2,
                           !.blockSize3 = l.blockSize3 - 1,
                           !.j = l.j - 1]]

\* Stage 3, second part.
FastStage3Short(l) ==
    LET r == MacLoop(l.X, l.Y, W0, l.px, l.py, l.blockSize3)
    IN  [out |-> <<CastQ15(r.sum.hi)>>,
         acc |-> <<r.sum>>,
         loc |-> [l EXCEPT !.pOut = l.pOut + 1,
                           !.pSrc1 = l.pSrc1 + 1,
                           !.px = l.pSrc1 + 1,
                           !.py = l.pSrc2,
                           !.blockSize3 = l.blockSize3 - 1]]

----------------------------------------------------------------------------
(* riscv_conv_opt_q15 *)

\* riscv_fill_q15(value, pDst, blockSize) and riscv_copy_q15(pSrc, pDst, blockSize),
\* pDst at index at of its buffer: the cells they store, blockSize of them.
riscv_fill_q15(value, at, blockSize) == [i \in at .. at + blockSize - 1 |-> value]

riscv_copy_q15(pSrc, at, blockSize) == [i \in at .. at + blockSize - 1 |-> pSrc[i - at]]

\* k passes of  *pScr2-- = *px++;  f holds the cells stored so far.
RECURSIVE OptReverseLoop(_, _, _, _, _)
OptReverseLoop(In2, f, pScr2, px, k) ==
    IF k = 0 THEN [f |-> f, pScr2 |-> pScr2, px |-> px]
    ELSE OptReverseLoop(In2, (pScr2 :> In2[px]) @@ f, pScr2 - 1, px + 1, k - 1)

\* The reversed copy without its second loop: the last srcBLen % 4 samples stay uncopied.
OptReverseCopy_NoRest(In2, bLen) ==
    OptReverseLoop(In2, <<>>, bLen - 1, 0, 4 * (bLen \div 4)).f

\* The cells of scratch2 stored by the reversed copy of the shorter sequence:
\* srcBLen >> 2 passes of four copies, then srcBLen % 4 single copies.
OptReverseCopy(In2, bLen) ==
    LET r1 == OptReverseLoop(In2, <<>>, bLen - 1, 0, 4 * (bLen \div 4))
    IN  OptReverseLoop(In2, r1.f, r1.pScr2, r1.px, bLen % 4).f

\* OptEntry with a trailing zero fill of srcBLen cells, one more than scratch1 holds.
OptEntry_LongFill(pA, pB) ==
    LET swap == ~(Len0(pA) >= Len0(pB))
        In1 == IF swap THEN pB ELSE pA
        In2 == IF swap THEN pA ELSE pB
        aLen == Len0(In1)
        bLen == Len0(In2)
    IN  [srcALen |-> aLen, srcBLen |-> bLen,
         scr2 |-> OptReverseCopy(In2, bLen),
         scr1 |-> riscv_fill_q15(0, 0, bLen - 1)
                  @@ riscv_copy_q15(In1, bLen - 1, aLen)
                  @@ riscv_fill_q15(0, (bLen - 1) + aLen, bLen),
         pScratch1 |-> 0, pOut |-> 0, py |-> 0,
         blkCnt |-> (aLen + bLen - 1) \div 4]

\* Entry of the function up to the first block: the operand swap, the reversed copy
\* of the shorter sequence into scratch2, and zeros, the longer sequence, zeros
\* into scratch1.  scr1 and scr2 hold the cells stored, at the indices stored to.
OptEntry(pA, pB) ==
    LET swap == ~(Len0(pA) >= Len0(pB))
        In1 == IF swap THEN pB ELSE pA
        In2 == IF swap THEN pA ELSE pB
        aLen == Len0(In1)
        bLen == Len0(In2)
    IN  [srcALen |-> aLen, srcBLen |-> bLen,
         scr2 |-> OptReverseCopy(In2, bLen),
         scr1 |-> riscv_fill_q15(0, 0, bLen - 1)
                  @@ riscv_copy_q15(In1, bLen - 1, aLen)
                  @@ riscv_fill_q15(0, (bLen - 1) + aLen, bLen - 1),
         pScratch1 |-> 0, pOut |-> 0, py |-> 0,
         blkCnt |-> (aLen + bLen - 1) \div 4]

\* One pass of the 4-tap loop of a 4-output block.  s holds acc0..acc3, the two
\* loaded vectors VectInA and VectInB, pScr1 and pIn2.
OptTaps4(S1, S2, s) ==
    LET C  == <<Rd(S2, s.pIn2), Rd(S2, s.pIn2 + 1)>>
        C1 == <<Rd(S2, s.pIn2 + 2), Rd(S2, s.pIn2 + 3)>>
        a0 == WAdd(s.acc0, dotpv2(s.VectInA, C))
        a2 == WAdd(s.acc2, dotpv2(s.VectInB, C))
        D1 == <<s.VectInA[2], s.VectInB[1]>>
        a1 == WAdd(s.acc1, dotpv2(D1, C))
        A  == <<Rd(S1, s.pScr1), Rd(S1, s.pScr1 + 1)>>
        b0 == WAdd(a0, dotpv2(s.VectInB, C1))
        b2 == WAdd(a2, dotpv2(A, C1))
        D2 == <<s.VectInB[2], A[1]>>
        a3 == WAdd(s.acc3, dotpv2(D2, C))
        b1 == WAdd(a1, dotpv2(D2, C1))
        B  == <<Rd(S1, s.pScr1 + 2), Rd(S1, s.pScr1 + 3)>>
        D3 == <<A[2], B[1]>>
        b3 == WAdd(a3, dotpv2(D3, C1))
    IN  [acc0 |-> b0, acc1 |-> b1, acc2 |-> b2, acc3 |-> b3,
         VectInA |-> A, VectInB |-> B,
         pScr1 |-> s.pScr1 + 4, pIn2 |-> s.pIn2 + 4]

RECURSIVE OptTapLoop(_, _, _, _)
OptTapLoop(S1, S2, s, tapCnt) ==
    IF tapCnt = 0 THEN s
    ELSE OptTapLoop(S1, S2, OptTaps4(S1, S2, s), tapCnt - 1)

\* The remaining srcBLen & 3 taps of a 4-output block, one product per output.
RECURSIVE OptTapRest(_, _, _, _)
OptTapRest(S1, S2, s, tapCnt) ==
    IF tapCnt = 0 THEN s
    ELSE OptTapRest(S1, S2,
           [s EXCEPT !.acc0 = WAdd(s.acc0, WMul(Rd(S1, s.pScr1), Rd(S2, s.pIn2))),
                     !.acc1 = WAdd(s.acc1, WMul(Rd(S1, s.pScr1 + 1), Rd(S2, s.pIn2))),
                     !.acc2 = WAdd(s.acc2, WMul(Rd(S1, s.pScr1 + 2), Rd(S2, s.pIn2))),
                     !.acc3 = WAdd(s.acc3, WMul(Rd(S1, s.pScr1 + 3), Rd(S2, s.pIn2))),
                     !.pScr1 = s.pScr1 + 1,
                     !.pIn2 = s.pIn2 + 1],
           tapCnt - 1)

\* The scratch cells the passes of the 4-tap loop load, pScr1 and pIn2 as at the
\* head of the pass: VectInA at pScr1 - 4 and VectInB at pScr1 - 2 (two cells each),
\* the next VectInA at pScr1 and lane 0 of the next VectInB at pScr1 + 2; four
\* cells of scratch2 at pIn2.
RECURSIVE OptTapLoopReads(_, _, _)
OptTapLoopReads(pScr1, pIn2, tapCnt) ==
    IF tapCnt = 0 THEN [rd1 |-> {}, rd2 |-> {}]
    ELSE LET r == OptTapLoopReads(pScr1 + 4, pIn2 + 4, tapCnt - 1)
         IN  [rd1 |-> (pScr1 - 4 .. pScr1 + 2) \cup r.rd1,
              rd2 |-> (pIn2 .. pIn2 + 3) \cup r.rd2]

\* The scratch cells the remaining taps load: four cells of scratch1 from pScr1 and
\* one of scratch2 per tap.
RECURSIVE OptTapRestReads(_, _, _)
OptTapRestReads(pScr1, pIn2, tapCnt) ==
    IF tapCnt = 0 THEN [rd1 |-> {}, rd2 |-> {}]
    ELSE LET r == OptTapRestReads(pScr1 + 1, pIn2 + 1, tapCnt - 1)
         IN  [rd1 |-> (pScr1 .. pScr1 + 3) \cup r.rd1, rd2 |-> {pIn2} \cup r.rd2]

\* The scratch cells one block of four outputs loads.
OptBlock4Reads(l) ==
    LET n4 == 4 * (l.srcBLen \div 4)
        r1 == OptTapLoopReads(l.pScratch1 + 4, l.py, l.srcBLen \div 4)
        r2 == OptTapRestReads(l.pScratch1 + 4 + n4 - 4, l.py + n4, l.srcBLen % 4)
    IN  [rd1 |-> r1.rd1 \cup r2.rd1, rd2 |-> r1.rd2 \cup r2.rd2]

\* The scratch cells one trailing output loads: srcBLen cells of each buffer.
OptSingleReads(l) ==
    [rd1 |-> l.pScratch1 .. l.pScratch1 + l.srcBLen - 1,
     rd2 |-> l.py .. l.py + l.srcBLen - 1]

\* One block of four outputs.
OptBlock4(l, S1, S2) ==
    LET s0 == [acc0 |-> W0, acc1 |-> W0, acc2 |-> W0, acc3 |-> W0,
               VectInA |-> <<Rd(S1, l.pScratch1), Rd(S1, l.pScratch1 + 1)>>,
               VectInB |-> <<Rd(S1, l.pScratch1 + 2), Rd(S1, l.pScratch1 + 3)>>,
               pScr1 |-> l.pScratch1 + 4, pIn2 |-> l.py]
        s1 == OptTapLoop(S1, S2, s0, l.srcBLen \div 4)
        s2 == OptTapRest(S1, S2, [s1 EXCEPT !.pScr1 = s1.pScr1 - 4], l.srcBLen % 4)
    IN  [out |-> <<SSAT16(s2.acc0.hi), SSAT16(s2.acc1.hi),
                   SSAT16(s2.acc2.hi), SSAT16(s2.acc3.hi)>>,
         acc |-> <<s2.acc0, s2.acc1, s2.acc2, s2.acc3>>,
         loc |-> [l EXCEPT !.pOut = l.pOut + 4,
                           !.pScratch1 = l.pScratch1 + 4,
                           !.blkCnt = l.blkCnt - 1,
                           !.rd1 = l.rd1 \cup OptBlock4Reads(l).rd1,
                           !.rd2 = l.rd2 \cup OptBlock4Reads(l).rd2]]

\* k products  acc0 += *pScr1++ * *pIn2++  into the 64-bit accumulator.
RECURSIVE OptMacLoop(_, _, _, _, _, _)
OptMacLoop(S1, S2, acc0, pScr1, pIn2, k) ==
    IF k = 0 THEN acc0
    ELSE OptMacLoop(S1, S2, WAdd(acc0, WMul(Rd(S1, pScr1), Rd(S2, pIn2))),
                    pScr1 + 1, pIn2 + 1, k - 1)

\* One trailing output: srcBLen >> 1 pairs of products, then srcBLen & 1.
OptSingle(l, S1, S2) ==
    LET n2 == 2 * (l.srcBLen \div 2)
        a == OptMacLoop(S1, S2, W0, l.pScratch1, l.py, n2)
        b == OptMacLoop(S1, S2, a, l.pScratch1 + n2, l.py + n2, l.srcBLen % 2)
    IN  [out |-> <<SSAT16(b.hi)>>,
         acc |-> <<b>>,
         loc |-> [l EXCEPT !.pOut = l.pOut + 1,
                           !.pScratch1 = l.pScratch1 + 1,
                           !.blkCnt = l.blkCnt - 1,
                           !.rd1 = l.rd1 \cup OptSingleReads(l).rd1,
                           !.rd2 = l.rd2 \cup OptSingleReads(l).rd2]]

\* The loop head the control reaches next.
OptFlow(p, l) ==
    IF p = "blk4" /\ l.blkCnt > 0 THEN [pc |-> "opt_blk4", loc |-> l]
    ELSE LET l1 == IF p = "blk4"
                   THEN [l EXCEPT !.blkCnt = (l.srcALen + l.srcBLen - 1) % 4]
                   ELSE l
         IN  IF l1.blkCnt > 0 THEN [pc |-> "opt_single", loc |-> l1]
             ELSE [pc |-> "ret", loc |-> l1]

----------------------------------------------------------------------------
(* The convolution calls.  Each behaviour fixes two input sequences and runs   *)
(* the calls of ConvCalls one after the other on them; the last call repeats   *)
(* the third on the scratch buffers as the fourth left them.                  *)

ConvCalls ==
    << [fn |-> "fast", order |-> "AB"], [fn |-> "fast", order |-> "BA"],
       [fn |-> "opt",  order |-> "AB"], [fn |-> "opt",  order |-> "BA"],
       [fn |-> "opt",  order |-> "AB"] >>

\* Input families.  OneHot: a single non-zero sample; Coded: every sample its own
\* value, of alternating sign; Step: h equal samples followed by zeros.
OneHot(n, at, v) == [i \in 0 .. n - 1 |-> IF i = at THEN v ELSE 0]

Coded(n) == [i \in 0 .. n - 1 |-> IF i % 2 = 0 THEN 1025 * (i + 1) ELSE -(1025 * (i + 1))]

Step(n, h, v) == [i \in 0 .. n - 1 |-> IF i < h THEN v ELSE 0]

HotVals == {-32768, 16384}

ExtVals == {-32768, 32767}

JunkVals == {21845}

ConvInputs ==
    { <<OneHot(la, at, v), Coded(lb)>> :
        la \in 1 .. MaxLen, lb \in 1 .. MaxLen, at \in 0 .. MaxLen - 1, v \in HotVals }
    \cup
    { <<Step(la, la, -32768), Step(lb, h, w)>> :
        la \in 1 .. MaxLen, lb \in 1 .. MaxLen, h \in 1 .. MaxLen, w \in ExtVals }

FirstArg(c) == IF c.order = "AB" THEN srcA ELSE srcB

SecondArg(c) == IF c.order = "AB" THEN srcB ELSE srcA

OutLen == Len0(srcA) + Len0(srcB) - 1

InitConv ==
    /\ ExtIdle
    /\ \E in \in ConvInputs : srcA = in[1] /\ srcB = in[2]
    /\ junk \in JunkVals
    /\ callNo = 1
    /\ pc = "idle"
    /\ loc = [fn |-> "none"]
    /\ pDst = Arr(OutLen, junk)
    /\ wlog = <<>>
    /\ pScratch1 = Arr(Max(Len0(srcA), Len0(srcB)) + 2 * Min(Len0(srcA), Len0(srcB)) - 2, junk)
    /\ pScratch2 = Arr(Min(Len0(srcA), Len0(srcB)), junk)
    /\ results = <<>>
    /\ matA = NoMat /\ matB = NoMat /\ cmplxA = NoMat /\ cmplxB = NoMat
    /\ dstInst = NoMat
    /\ pState = <<>>
    /\ RISCV_MATH_MATRIX_CHECK = FALSE
    /\ status = "none"
    /\ vecSrc = <<>> /\ offset = 0 /\ shiftBits = 0 /\ kernel = "none"
    /\ fillValue = 0 /\ vecBlockSize = 0

\* The stores of one step: r.out[i] goes to pDst[pOut + i - 1].
RECURSIVE StoreAll(_, _, _, _)
StoreAll(buf, at, out, i) ==
    IF i > Len(out) THEN buf
    ELSE StoreAll(Wr(buf, at + i - 1, out[i]), at, out, i + 1)

\* The log entries of one step: the index stored to, the accumulator the value was
\* taken from, the value stored, and the loop that stored it.
LogAll(at, r) ==
    [i \in 1 .. Len(r.out) |->
       [idx |-> at + i - 1, acc |-> r.acc[i], val |-> r.out[i], st |-> pc]]

\* A loop body r executed at pOut = at, followed by the loop test f.
Step1(at, r, f) ==
    /\ pDst' = StoreAll(pDst, at, r.out, 1)
    /\ wlog' = wlog \o LogAll(at, r)
    /\ pc' = f.pc
    /\ loc' = f.loc
    /\ UNCHANGED <<extV, convIn, matIn, vecIn, pState, status, junk, callNo, pScratch1, pScratch2, results>>

conv_fast_call ==
    /\ pc = "idle"
    /\ callNo <= Len(ConvCalls)
    /\ ConvCalls[callNo].fn = "fast"
    /\ LET f == FastFlow("s1a", FastEntry(FirstArg(ConvCalls[callNo]), SecondArg(ConvCalls[callNo])))
       IN  /\ pc' = f.pc
           /\ loc' = f.loc
    /\ pDst' = Arr(OutLen, junk)
    /\ wlog' = <<>>
    /\ UNCHANGED <<extV, convIn, matIn, vecIn, pState, status, junk, callNo, pScratch1, pScratch2, results>>

fast_stage1_short ==
    /\ pc = "fast_s1a"
    /\ LET r == FastStage1Short(loc) IN Step1(loc.pOut, r, FastFlow("s1a", r.loc))

fast_stage1_unrolled ==
    /\ pc = "fast_s1b"
    /\ LET r == FastStage1Unrolled(loc) IN Step1(loc.pOut, r, FastFlow("s1b", r.loc))

fast_stage2_block4 ==
    /\ pc = "fast_s2u"
    /\ LET r == FastStage2Block4(loc) IN Step1(loc.pOut, r, FastFlow("s2u", r.loc))

fast_stage2_rest ==
    /\ pc = "fast_s2r"
    /\ LET r == FastStage2Single(loc) IN Step1(loc.pOut, r, FastFlow("s2r", r.loc))

fast_stage2_short ==
    /\ pc = "fast_s2n"
    /\ LET r == FastStage2Single(loc) IN Step1(loc.pOut, r, FastFlow("s2n", r.loc))

fast_stage3_unrolled ==
    /\ pc = "fast_s3a"
    /\ LET r == FastStage3Unrolled(loc) IN Step1(loc.pOut, r, FastFlow("s3a", r.loc))

fast_stage3_short ==
    /\ pc = "fast_s3b"
    /\ LET r == FastStage3Short(loc) IN Step1(loc.pOut, r, FastFlow("s3b", r.loc))

conv_opt_call ==
    /\ pc = "idle"
    /\ callNo <= Len(ConvCalls)
    /\ ConvCalls[callNo].fn = "opt"
    /\ LET e == OptEntry(FirstArg(ConvCalls[callNo]), SecondArg(ConvCalls[callNo]))
           f == OptFlow("blk4", [srcALen |-> e.srcALen, srcBLen |-> e.srcBLen,
                                 pScratch1 |-> e.pScratch1, pOut |-> e.pOut,
                                 py |-> e.py, blkCnt |-> e.blkCnt,
                                 wr1 |-> DOMAIN e.scr1, wr2 |-> DOMAIN e.scr2,
                                 rd1 |-> {}, rd2 |-> {}])
       IN  /\ pScratch1' = [i \in DOMAIN pScratch1 |->
                              IF i \in DOMAIN e.scr1 THEN e.scr1[i] ELSE pScratch1[i]]
           /\ pScratch2' = [i \in DOMAIN pScratch2 |->
                              IF i \in DOMAIN e.scr2 THEN e.scr2[i] ELSE pScratch2[i]]
           /\ pc' = f.pc
           /\ loc' = f.loc
    /\ pDst' = Arr(OutLen, junk)
    /\ wlog' = <<>>
    /\ UNCHANGED <<extV, convIn, matIn, vecIn, pState, status, junk, callNo, results>>

opt_block4 ==
    /\ pc = "opt_blk4"
    /\ LET r == OptBlock4(loc, pScratch1, pScratch2)
       IN  Step1(loc.pOut, r, OptFlow("blk4", r.loc))

opt_single ==
    /\ pc = "opt_single"
    /\ LET r == OptSingle(loc, pScratch1, pScratch2)
       IN  Step1(loc.pOut, r, OptFlow("single", r.loc))

conv_return ==
    /\ pc = "ret"
    /\ results' = Append(results, [fn |-> ConvCalls[callNo].fn,
                                   order |-> ConvCalls[callNo].order,
                                   dst |-> pDst, log |-> wlog])
    /\ callNo' = callNo + 1
    /\ pc' = "idle"
    /\ UNCHANGED <<extV, convIn, matIn, vecIn, pState, status, junk, loc, pDst, wlog, pScratch1, pScratch2>>

NextConv ==
    \/ conv_fast_call
    \/ fast_stage1_short
    \/ fast_stage1_unrolled
    \/ fast_stage2_block4
    \/ fast_stage2_rest
    \/ fast_stage2_short
    \/ fast_stage3_unrolled
    \/ fast_stage3_short
    \/ conv_opt_call
    \/ opt_block4
    \/ opt_single
    \/ conv_return

SpecConv == InitConv /\ [][NextConv]_vars

----------------------------------------------------------------------------
(* The mathematical convolution the kernels are specified against. *)

\* Sum of A[k] * B[n - k] over the k from k0 up with both indices in range.
RECURSIVE ConvSumFrom(_, _, _, _)
ConvSumFrom(A, B, n, k) ==
    IF k >= Len0(A) THEN W0
    ELSE WAdd(IF n - k \in DOMAIN B THEN WMul(A[k], B[n - k]) ELSE W0,
              ConvSumFrom(A, B, n, k + 1))

ConvSum(A, B, n) == ConvSumFrom(A, B, n, 0)

Abs(v) == IF v < 0 THEN -v ELSE v

\* Sum of |A[k] * B[n - k]|: a bound of every partial sum of output n's products.
RECURSIVE ConvAbsFrom(_, _, _, _)
ConvAbsFrom(A, B, n, k) ==
    IF k >= Len0(A) THEN W0
    ELSE WAdd(IF n - k \in DOMAIN B THEN WNorm(0, Abs(A[k] * B[n - k])) ELSE W0,
              ConvAbsFrom(A, B, n, k + 1))

\* No partial sum of any output's products leaves the signed 32-bit range.
Prescaled(A, B) ==
    \A n \in 0 .. Len0(A) + Len0(B) - 2 : ConvAbsFrom(A, B, n, 0).hi <= 65535

\* The log of the running call and the logs of the finished calls of kernel fn.
LogsOf(fn) ==
    { results[c].log : c \in { d \in 1 .. Len(results) : results[d].fn = fn } }
    \cup (IF callNo <= Len(ConvCalls) /\ pc # "idle" /\ ConvCalls[callNo].fn = fn
          THEN {wlog} ELSE {})

AllDone == callNo = Len(ConvCalls) + 1

----------------------------------------------------------------------------
(* Claims on the convolution kernels, checked under SpecConv. *)

\* C1: every value riscv_conv_opt_q15 stores at index n is
\* clamp(S(n) >> 15, -32768, 32767), S(n) the sum of A[k]*B[n-k], in both argument orders.
C1_OptStoresConvolution ==
    \A lg \in LogsOf("opt") : \A i \in 1 .. Len(lg) :
        lg[i].val = SSAT16(ConvSum(srcA, srcB, lg[i].idx).hi)

\* C2: on inputs scaled so that no partial sum of an output's products leaves the
\* signed 32-bit range, riscv_conv_fast_q15 and riscv_conv_opt_q15 write the same output.
C2_FastEqualsOptWhenPrescaled ==
    (AllDone /\ Prescaled(srcA, srcB)) =>
        /\ results[1].dst = results[3].dst
        /\ results[2].dst = results[4].dst

\* C3: conv(A, B) and conv(B, A) write element-for-element identical outputs, for
\* riscv_conv_fast_q15 and for riscv_conv_opt_q15.
C3_ConvCommutes ==
    AllDone =>
        /\ results[1].dst = results[2].dst
        /\ results[3].dst = results[4].dst

\* C4: both kernels store to the destination indices 0 .. lenA+lenB-2, each exactly
\* once and in increasing order, store nothing at lenA+lenB-1 or beyond and then
\* return (every loop pass stores, and a call that has not returned has stores left);
\* the fast kernel's three stages store lenB'-1, lenA'-lenB'+1 and lenB'-1 outputs.
StageCount(lg, stages) == Cardinality({ i \in 1 .. Len(lg) : lg[i].st \in stages })

C4_WritesExactlyOutLenInOrder ==
    /\ \A i \in 1 .. Len(wlog) : wlog[i].idx = i - 1
    /\ Len(wlog) <= OutLen
    /\ pc \notin {"idle", "ret"} => Len(wlog) < OutLen
    /\ pc = "ret" => Len(wlog) = OutLen
    /\ (pc = "ret" /\ ConvCalls[callNo].fn = "fast") =>
          LET lo == Min(Len0(srcA), Len0(srcB))
              hi == Max(Len0(srcA), Len0(srcB))
          IN  /\ StageCount(wlog, {"fast_s1a", "fast_s1b"}) = lo - 1
              /\ StageCount(wlog, {"fast_s2u", "fast_s2r", "fast_s2n"}) = hi - lo + 1
              /\ StageCount(wlog, {"fast_s3a", "fast_s3b"}) = lo - 1
    /\ \A c \in 1 .. Len(results) :
          /\ Len(results[c].log) = OutLen
          /\ \A i \in 1 .. OutLen : results[c].log[i].idx = i - 1

\* A fast call and an opt call have returned on sequences long enough for every
\* loop of both kernels (lengths 11 and 7).
C4_Witness ==
    /\ pc = "ret"
    /\ callNo = 3
    /\ Len(results) = 2
    /\ Len(wlog) = OutLen
    /\ Max(Len0(srcA), Len0(srcB)) >= 11
    /\ Min(Len0(srcA), Len0(srcB)) = 7

\* C5: every value riscv_conv_fast_q15 stores is clamp(acc >> 15, -32768, 32767),
\* acc the 32-bit accumulator of that output, in every stage.
C5_FastStoresSaturated ==
    \A lg \in LogsOf("fast") : \A i \in 1 .. Len(lg) :
        lg[i].val = SSAT16(lg[i].acc.hi)

\* C6: in riscv_conv_opt_q15 the accumulator that is shifted and saturated is the
\* exact sum of the output's products, for every input.
C6_OptAccumulatorExact ==
    \A lg \in LogsOf("opt") : \A i \in 1 .. Len(lg) :
        lg[i].acc = ConvSum(srcA, srcB, lg[i].idx)

\* C23: in riscv_conv_fast_q15 with a shorter length of 4 or more, the accumulator
\* of every plateau output n is the sum of the products x[n-k] * y[k], k = 0 ..
\* lenB-1 (in its 32 bits), in the four-output loop with its tails and in the
\* one-output loop alike.
C23_PlateauAccumulatesAllProducts ==
    \A lg \in LogsOf("fast") : \A i \in 1 .. Len(lg) :
        lg[i].st \in {"fast_s2u", "fast_s2r"} =>
            lg[i].acc = Wrap32(ConvSum(srcA, srcB, lg[i].idx))

----------------------------------------------------------------------------
(* riscv_mat_mult_fast_q15 and riscv_mat_cmplx_mult_q15.  A matrix instance is
   [numRows, numCols, pData]; pData is row-major, a complex matrix holds the
   interleaved (re, im) pairs.  pState is the transposition scratch buffer and
   pDst the buffer dstInst.pData points to.  The store log wlog holds one entry
   per store: the buffer, the index, the value and, for a destination store,
   the accumulator the value was taken from. *)

MaxRows == 2

MaxInner == 5

MaxCols == 5

\* The mismatch test of riscv_mat_mult_fast_q15.
MatSizeMismatch_InnerOnly(A, B, D) == A.numCols # B.numRows

MatSizeMismatch(A, B, D) ==
    \/ A.numCols # B.numRows
    \/ A.numRows # D.numRows
    \/ B.numCols # D.numCols

\* The mismatch test of riscv_mat_cmplx_mult_q15.
CmplxSizeMismatch(A, B, D) ==
    \/ A.numCols # B.numRows
    \/ A.numRows # D.numRows
    \/ B.numCols # D.numCols

\* Locals of both functions at the start of the transposition.
MatEntry(A, B, dsp) ==
    [USE_DSP_RISCV |-> dsp,
     numRowsA |-> A.numRows, numColsB |-> B.numCols,
     numColsA |-> A.numCols, numRowsB |-> B.numRows,
     pInA |-> 0, pInB |-> 0, px |-> 0,
     i |-> 0, row |-> B.numRows, col |-> 0,
     rd |-> {}]

\* n passes of  *px = *pInB++; px += numRowsB;  r = [S, pInB, px, st].
RECURSIVE MatTransposeCols(_, _, _, _)
MatTransposeCols(B, r, numRowsB, n) ==
    IF n = 0 THEN r
    ELSE MatTransposeCols(B,
             [S |-> Wr(r.S, r.px, Rd(B, r.pInB)),
              pInB |-> r.pInB + 1,
              px |-> r.px + numRowsB,
              st |-> Append(r.st, [buf |-> "scratch", idx |-> r.px,
                                   val |-> Rd(B, r.pInB), acc |-> W0])],
             numRowsB, n - 1)

\* The row pass without its second loop: the last numColsB % 4 elements of the row
\* are not stored.
MatTransposeRow_NoRest(l, B, S) ==
    LET r0 == [S |-> S, pInB |-> l.pInB, px |-> l.i, st |-> <<>>]
        r1 == MatTransposeCols(B, r0, l.numRowsB, 4 * (l.numColsB \div 4))
    IN  [S |-> r1.S, st |-> r1.st,
         loc |-> [l EXCEPT !.pInB = r1.pInB + (l.numColsB % 4), !.px = r1.px,
                           !.i = l.i + 1, !.row = l.row - 1]]

\* One pass of the transposition's row loop: row i of B becomes column i of the
\* scratch matrix, numColsB >> 2 times four columns and then numColsB % 4 columns.
MatTransposeRow(l, B, S) ==
    LET r0 == [S |-> S, pInB |-> l.pInB, px |-> l.i, st |-> <<>>]
        r1 == MatTransposeCols(B, r0, l.numRowsB, 4 * (l.numColsB \div 4))
        r2 == MatTransposeCols(B, r1, l.numRowsB, l.numColsB % 4)
    IN  [S |-> r2.S, st |-> r2.st,
         loc |-> [l EXCEPT !.pInB = r2.pInB, !.px = r2.px,
                           !.i = l.i + 1, !.row = l.row - 1]]

\* The loop test of the transposition; after the last row the multiplication
\* starts at row 0 of A, column 0 of the transposed B and element 0 of pDst.
MatTransposeFlow(l) ==
    IF l.row > 0 THEN [pc |-> "mat_transpose", loc |-> l]
    ELSE [pc |-> "mat_cell",
          loc |-> [l EXCEPT !.row = l.numRowsA, !.i = 0, !.px = 0,
                            !.col = l.numColsB, !.pInB = 0]]

\* colCnt passes of the four-MAC loop: two sumdotpv2 on the packed path, four
\* sum += a * b on the scalar path.
RECURSIVE MatDotUnrolled(_, _, _, _, _, _, _)
MatDotUnrolled(A, S, sum, pInA, pInB, colCnt, dsp) ==
    IF colCnt = 0 THEN [sum |-> sum, pInA |-> pInA, pInB |-> pInB]
    ELSE LET a(k) == Rd(A, pInA + k)
             b(k) == Rd(S, pInB + k)
             s2 == IF dsp
                   THEN sumdotpv2(<<a(2), a(3)>>, <<b(2), b(3)>>,
                                  sumdotpv2(<<a(0), a(1)>>, <<b(0), b(1)>>, sum))
                   ELSE mac(a(3), b(3), mac(a(2), b(2), mac(a(1), b(1), mac(a(0), b(0), sum))))
         IN  MatDotUnrolled(A, S, s2, pInA + 4, pInB + 4, colCnt - 1, dsp)

\* The loop without a body: the numColsA % 4 last products are dropped.
MatDotRest_Skip(A, S, sum, pInA, pInB, colCnt) ==
    [sum |-> sum, pInA |-> pInA + colCnt, pInB |-> pInB + colCnt]

\* colCnt passes of  sum = mac(*pInA++, *pInB++, sum)  (sum += ... when scalar).
RECURSIVE MatDotRest(_, _, _, _, _, _)
MatDotRest(A, S, sum, pInA, pInB, colCnt) ==
    IF colCnt = 0 THEN [sum |-> sum, pInA |-> pInA, pInB |-> pInB]
    ELSE MatDotRest(A, S, mac(Rd(A, pInA), Rd(S, pInB), sum), pInA + 1, pInB + 1, colCnt - 1)

\* The scratch cells one pass of the column loop loads: four per pass of the
\* four-MAC loop, one per remaining MAC.
MatCellReads(l) ==
    LET n4 == 4 * (l.numColsA \div 4)
    IN  (l.pInB .. l.pInB + n4 - 1) \cup (l.pInB + n4 .. l.pInB + n4 + (l.numColsA % 4) - 1)

\* MatCell with the cell stored as (q15_t)(sum >> 16).
MatCell_Shift16(l, A, S) ==
    LET r1 == MatDotUnrolled(A, S, W0, l.i, l.pInB, l.numColsA \div 4, l.USE_DSP_RISCV)
        r2 == MatDotRest(A, S, r1.sum, r1.pInA, r1.pInB, l.numColsA % 4)
    IN  [st |-> << [buf |-> "dst", idx |-> l.px, val |-> CastQ15(r2.sum.hi \div 2), acc |-> r2.sum] >>,
         loc |-> [l EXCEPT !.pInA = r2.pInA, !.pInB = r2.pInB,
                           !.px = l.px + 1, !.col = l.col - 1,
                           !.rd = l.rd \cup MatCellReads(l)]]

\* One pass of the column loop: one cell, stored as (q15_t)(sum >> 15).
MatCell(l, A, S) ==
    LET r1 == MatDotUnrolled(A, S, W0, l.i, l.pInB, l.numColsA \div 4, l.USE_DSP_RISCV)
        r2 == MatDotRest(A, S, r1.sum, r1.pInA, r1.pInB, l.numColsA % 4)
    IN  [st |-> << [buf |-> "dst", idx |-> l.px, val |-> CastQ15(r2.sum.hi), acc |-> r2.sum] >>,
         loc |-> [l EXCEPT !.pInA = r2.pInA, !.pInB = r2.pInB,
                           !.px = l.px + 1, !.col = l.col - 1,
                           !.rd = l.rd \cup MatCellReads(l)]]

\* The tests of the column loop and of the row loop around it.
MatCellFlow(l) ==
    IF l.col > 0 THEN [pc |-> "mat_cell", loc |-> l]
    ELSE IF l.row - 1 > 0
         THEN [pc |-> "mat_cell",
               loc |-> [l EXCEPT !.i = l.i + l.numColsA, !.row = l.row - 1,
                                 !.col = l.numColsB, !.pInB = 0]]
         ELSE [pc |-> "ret",
               loc |-> [l EXCEPT !.i = l.i + l.numColsA, !.row = l.row - 1]]

\* n passes of  *px = *pInB++; px[1] = *pInB++; px += numRowsB * 2.
RECURSIVE CmplxTransposeCols(_, _, _, _)
CmplxTransposeCols(B, r, numRowsB, n) ==
    IF n = 0 THEN r
    ELSE CmplxTransposeCols(B,
             [S |-> Wr(Wr(r.S, r.px, Rd(B, r.pInB)), r.px + 1, Rd(B, r.pInB + 1)),
              pInB |-> r.pInB + 2,
              px |-> r.px + numRowsB * 2,
              st |-> r.st \o << [buf |-> "scratch", idx |-> r.px,
                                 val |-> Rd(B, r.pInB), acc |-> W0],
                                [buf |-> "scratch", idx |-> r.px + 1,
                                 val |-> Rd(B, r.pInB + 1), acc |-> W0] >>],
             numRowsB, n - 1)

\* One pass of the complex transposition's row loop.
CmplxTransposeRow(l, B, S) ==
    LET r0 == [S |-> S, pInB |-> l.pInB, px |-> l.i, st |-> <<>>]
        r1 == CmplxTransposeCols(B, r0, l.numRowsB, l.numColsB)
    IN  [S |-> r1.S, st |-> r1.st,
         loc |-> [l EXCEPT !.pInB = r1.pInB, !.px = r1.px,
                           !.i = l.i + 2, !.row = l.row - 1]]

CmplxTransposeFlow(l) ==
    IF l.row > 0 THEN [pc |-> "cmplx_transpose", loc |-> l]
    ELSE [pc |-> "cmplx_cell",
          loc |-> [l EXCEPT !.row = l.numRowsA, !.i = 0, !.px = 0,
                            !.col = l.numColsB, !.pInB = 0]]

\* Scalar path: the four products of (a + jb)(c + jd) on the 64-bit accumulators.
CmplxMacScalar(a, b, c, d, s) ==
    [re |-> WSub(WAdd(s.re, WMul(a, c)), WMul(b, d)),
     im |-> WAdd(WAdd(s.im, WMul(a, d)), WMul(b, c))]

\* Packed path: the lanes (a, -b).(c, d) and (a, b).(d, c); the lane -b is a q15_t.
CmplxMacPacked(a, b, c, d, s) ==
    [re |-> WAdd(s.re, dotpv2(<<a, CastQ15(-b)>>, <<c, d>>)),
     im |-> WAdd(s.im, dotpv2(<<a, b>>, <<d, c>>))]

CmplxMac(A, S, pInA, pInB, s, dsp) ==
    IF dsp THEN CmplxMacPacked(Rd(A, pInA), Rd(A, pInA + 1), Rd(S, pInB), Rd(S, pInB + 1), s)
    ELSE CmplxMacScalar(Rd(A, pInA), Rd(A, pInA + 1), Rd(S, pInB), Rd(S, pInB + 1), s)

\* colCnt passes of the loop over two columns of A at a time.
RECURSIVE CmplxDotUnrolled(_, _, _, _, _, _, _)
CmplxDotUnrolled(A, S, s, pInA, pInB, colCnt, dsp) ==
    IF colCnt = 0 THEN [s |-> s, pInA |-> pInA, pInB |-> pInB]
    ELSE CmplxDotUnrolled(A, S,
             CmplxMac(A, S, pInA + 2, pInB + 2, CmplxMac(A, S, pInA, pInB, s, dsp), dsp),
             pInA + 4, pInB + 4, colCnt - 1, dsp)

\* The odd column of A, when numColsA & 1.
CmplxDotOdd(A, S, r, numColsA, dsp) ==
    IF numColsA % 2 > 0
    THEN [s |-> CmplxMac(A, S, r.pInA, r.pInB, r.s, dsp),
          pInA |-> r.pInA + 2, pInB |-> r.pInB + 2]
    ELSE r

\* The scratch cells one pass of the complex column loop loads: four per pass of
\* the two-column loop, two for the odd column.
CmplxCellReads(l) ==
    LET n4 == 4 * (l.numColsA \div 2)
    IN  (l.pInB .. l.pInB + n4 - 1)
        \cup (IF l.numColsA % 2 > 0 THEN {l.pInB + n4, l.pInB + n4 + 1} ELSE {})

\* One pass of the column loop: one complex cell, saturated by clip on the packed
\* path and by __SSAT on the scalar path.
CmplxCell(l, A, S) ==
    LET r1 == CmplxDotUnrolled(A, S, [re |-> W0, im |-> W0], l.i * 2, l.pInB,
                               l.numColsA \div 2, l.USE_DSP_RISCV)
        r2 == CmplxDotOdd(A, S, r1, l.numColsA, l.USE_DSP_RISCV)
        sat(v) == IF l.USE_DSP_RISCV THEN CastQ15(clip(v, -32768, 32767))
                  ELSE CastQ15(SSAT16(v))
    IN  [st |-> << [buf |-> "dst", idx |-> l.px, val |-> sat(r2.s.re.hi), acc |-> r2.s.re],
                   [buf |-> "dst", idx |-> l.px + 1, val |-> sat(r2.s.im.hi), acc |-> r2.s.im] >>,
         loc |-> [l EXCEPT !.pInA = r2.pInA, !.pInB = r2.pInB,
                           !.px = l.px + 2, !.col = l.col - 1,
                           !.rd = l.rd \cup CmplxCellReads(l)]]

CmplxCellFlow(l) ==
    IF l.col > 0 THEN [pc |-> "cmplx_cell", loc |-> l]
    ELSE IF l.row - 1 > 0
         THEN [pc |-> "cmplx_cell",
               loc |-> [l EXCEPT !.i = l.i + l.numColsA, !.row = l.row - 1,
                                 !.col = l.numColsB, !.pInB = 0]]
         ELSE [pc |-> "ret",
               loc |-> [l EXCEPT !.i = l.i + l.numColsA, !.row = l.row - 1]]

----------------------------------------------------------------------------
(* The calls and their inputs. *)

\* Both functions, each in the build without and with USE_DSP_RISCV; the last two
\* calls repeat the third and the first.  Every call gets the caller's scratch
\* memory as the call before left it.
MatCalls ==
    << [fn |-> "mat_mult_fast", USE_DSP_RISCV |-> FALSE],
       [fn |-> "mat_mult_fast", USE_DSP_RISCV |-> TRUE],
       [fn |-> "mat_cmplx_mult", USE_DSP_RISCV |-> FALSE],
       [fn |-> "mat_cmplx_mult", USE_DSP_RISCV |-> TRUE],
       [fn |-> "mat_cmplx_mult", USE_DSP_RISCV |-> FALSE],
       [fn |-> "mat_mult_fast", USE_DSP_RISCV |-> FALSE] >>

\* The caller's scratch memory as a buffer of n cells: what the call before left
\* in the cells it had, junk in the others.
ScratchOf(buf, n) == [i \in 0 .. n - 1 |-> IF i \in DOMAIN buf THEN buf[i] ELSE junk]

\* A value of its own for every element, of alternating sign.
MatCoded(t) == IF t % 2 = 0 THEN 257 * (t + 1) ELSE -(257 * (t + 1))

\* Real and complex instances of r rows and c columns.
MatHot(r, c, at, v) ==
    [numRows |-> r, numCols |-> c, pData |-> [t \in 0 .. r * c - 1 |-> IF t = at THEN v ELSE 0]]

MatCodedB(r, c) ==
    [numRows |-> r, numCols |-> c, pData |-> [t \in 0 .. r * c - 1 |-> MatCoded(t)]]

MatConst(r, c, v) ==
    [numRows |-> r, numCols |-> c, pData |-> [t \in 0 .. r * c - 1 |-> v]]

\* Rows 0 .. h-1 hold -32768, the rows below 32767.
MatStepB(r, c, h) ==
    [numRows |-> r, numCols |-> c,
     pData |-> [t \in 0 .. r * c - 1 |-> IF t \div c < h THEN -32768 ELSE 32767]]

CmplxHot(r, c, at, part, v) ==
    [numRows |-> r, numCols |-> c,
     pData |-> [t \in 0 .. 2 * r * c - 1 |-> IF t = 2 * at + part THEN v ELSE 0]]

CmplxCodedB(r, c) ==
    [numRows |-> r, numCols |-> c, pData |-> [t \in 0 .. 2 * r * c - 1 |-> MatCoded(t)]]

CmplxConst(r, c, re, im) ==
    [numRows |-> r, numCols |-> c,
     pData |-> [t \in 0 .. 2 * r * c - 1 |-> IF t % 2 = 0 THEN re ELSE im]]

CmplxStepB(r, c, h, im) ==
    [numRows |-> r, numCols |-> c,
     pData |-> [t \in 0 .. 2 * r * c - 1 |->
                  IF t % 2 = 1 THEN im
                  ELSE IF (t \div 2) \div c < h THEN -32768 ELSE 32767]]

\* The destination instance handed in: "rows" and "cols" are destinations with one
\* row or one column more than the product has, "inner" is a B with one row more
\* than A has columns.
MismatchKinds == {"none", "inner", "rows", "cols"}

DstFor(m, n, kind, j) ==
    LET r == IF kind = "rows" THEN m + 1 ELSE m
        c == IF kind = "cols" THEN n + 1 ELSE n
    IN  [numRows |-> r, numCols |-> c, pData |-> Arr(r * c, j)]

\* The non-zero element: 16384 as a real part, -32768 as an imaginary part.
HotOf(part) == IF part = 0 THEN 16384 ELSE -32768

\* The element values of the matrices multiplied by an identity: the ends of the
\* Q15 range, the values next to zero and one value in between.
IdVals == << -32768, -1, 0, 1, 32767, 12345 >>

\* Element t holds the value (t + s) of IdVals, counted cyclically.
MatCycled(r, c, s) ==
    [numRows |-> r, numCols |-> c,
     pData |-> [t \in 0 .. r * c - 1 |-> IdVals[((t + s) % Len(IdVals)) + 1]]]

\* The n x n identity: 0x7FFF on the diagonal.
MatIdentity(n) ==
    [numRows |-> n, numCols |-> n,
     pData |-> [t \in 0 .. n * n - 1 |-> IF t \div n = t % n THEN 32767 ELSE 0]]

\* A times the identity and the identity times A; the identity on the left has as
\* many rows as the inner dimension allows. The complex instances of these inputs
\* have one inner column.
IdentInputs(j) ==
    { [A |-> MatCycled(m, n, s), B |-> MatIdentity(n),
       cA |-> CmplxHot(m, 1, 0, 0, 16384), cB |-> CmplxCodedB(1, n),
       D |-> DstFor(m, n, "none", j), chk |-> TRUE] :
        m \in 1 .. MaxRows, n \in (1 .. MaxInner) \cap (1 .. MaxCols),
        s \in 0 .. Len(IdVals) - 1 }
    \cup
    { [A |-> MatIdentity(m), B |-> MatCycled(m, n, s),
       cA |-> CmplxHot(m, 1, 0, 0, 16384), cB |-> CmplxCodedB(1, n),
       D |-> DstFor(m, n, "none", j), chk |-> TRUE] :
        m \in 1 .. MaxInner, n \in 1 .. MaxCols, s \in 0 .. Len(IdVals) - 1 }

\* The inputs: a single non-zero element of A against a coded B, and a one-row A
\* with the extremes of the Q15 range in every element (the rows of a constant A
\* repeat each other), in builds with RISCV_MATH_MATRIX_CHECK; the
\* mismatching instances in builds with and without it; the identity products.
MatInputs(j) ==
    { [A |-> MatHot(m, p, at, HotOf(part)), B |-> MatCodedB(p, n),
       cA |-> CmplxHot(m, p, at, part, HotOf(part)), cB |-> CmplxCodedB(p, n),
       D |-> DstFor(m, n, "none", j), chk |-> TRUE] :
        m \in 1 .. MaxRows, p \in 1 .. MaxInner, n \in 1 .. MaxCols,
        at \in 0 .. MaxRows * MaxInner - 1, part \in {0, 1} }
    \cup
    { [A |-> MatConst(1, p, a), B |-> MatStepB(p, n, h),
       cA |-> CmplxConst(1, p, a, b), cB |-> CmplxStepB(p, n, h, d),
       D |-> DstFor(1, n, "none", j), chk |-> TRUE] :
        p \in 1 .. MaxInner, n \in 1 .. MaxCols,
        h \in {0, 2, MaxInner}, a \in ExtVals, b \in ExtVals, d \in ExtVals }
    \cup
    { [A |-> MatHot(m, p, 0, 16384),
       B |-> MatCodedB(IF kind = "inner" THEN p + 1 ELSE p, n),
       cA |-> CmplxHot(m, p, 0, 0, 16384),
       cB |-> CmplxCodedB(IF kind = "inner" THEN p + 1 ELSE p, n),
       D |-> DstFor(m, n, kind, j), chk |-> c] :
        m \in 1 .. MaxRows, p \in 1 .. MaxInner, n \in 1 .. MaxCols,
        kind \in MismatchKinds, c \in BOOLEAN }
    \cup IdentInputs(j)

InitMat ==
    /\ ExtIdle
    /\ junk \in JunkVals
    /\ \E in \in MatInputs(junk) :
          /\ matA = in.A /\ matB = in.B
          /\ cmplxA = in.cA /\ cmplxB = in.cB
          /\ dstInst = in.D
          /\ RISCV_MATH_MATRIX_CHECK = in.chk
    /\ srcA = <<>> /\ srcB = <<>>
    /\ pScratch1 = <<>> /\ pScratch2 = <<>>
    /\ pState = <<>>
    /\ vecSrc = <<>> /\ offset = 0 /\ shiftBits = 0 /\ kernel = "none"
    /\ fillValue = 0 /\ vecBlockSize = 0
    /\ pDst = dstInst.pData
    /\ status = "none"
    /\ callNo = 1
    /\ pc = "idle"
    /\ loc = [fn |-> "none"]
    /\ wlog = <<>>
    /\ results = <<>>

\* The stores st applied to buf.
RECURSIVE MatStore(_, _, _)
MatStore(buf, st, k) ==
    IF k > Len(st) THEN buf
    ELSE MatStore(Wr(buf, st[k].idx, st[k].val), st, k + 1)

mat_mult_fast_call ==
    /\ pc = "idle"
    /\ callNo <= Len(MatCalls)
    /\ MatCalls[callNo].fn = "mat_mult_fast"
    /\ pDst' = dstInst.pData
    /\ pState' = ScratchOf(pState, matB.numRows * matB.numCols)
    /\ wlog' = <<>>
    /\ loc' = MatEntry(matA, matB, MatCalls[callNo].USE_DSP_RISCV)
    /\ IF RISCV_MATH_MATRIX_CHECK /\ MatSizeMismatch(matA, matB, dstInst)
       THEN status' = "RISCV_MATH_SIZE_MISMATCH" /\ pc' = "ret"
       ELSE status' = "none" /\ pc' = "mat_transpose"
    /\ UNCHANGED <<extV, convIn, matIn, vecIn, junk, callNo, pScratch1, pScratch2, results>>

mat_transpose_row ==
    /\ pc = "mat_transpose"
    /\ LET r == MatTransposeRow(loc, matB.pData, pState)
           f == MatTransposeFlow(r.loc)
       IN  /\ pState' = r.S
           /\ wlog' = wlog \o r.st
           /\ pc' = f.pc
           /\ loc' = f.loc
    /\ UNCHANGED <<extV, convIn, matIn, vecIn, junk, callNo, pScratch1, pScratch2, results, pDst, status>>

mat_cell ==
    /\ pc = "mat_cell"
    /\ LET r == MatCell(loc, matA.pData, pState)
           f == MatCellFlow(r.loc)
       IN  /\ pDst' = MatStore(pDst, r.st, 1)
           /\ wlog' = wlog \o r.st
           /\ pc' = f.pc
           /\ loc' = f.loc
           /\ status' = IF f.pc = "ret" THEN "RISCV_MATH_SUCCESS" ELSE status
    /\ UNCHANGED <<extV, convIn, matIn, vecIn, junk, callNo, pScratch1, pScratch2, results, pState>>

mat_cmplx_mult_call ==
    /\ pc = "idle"
    /\ callNo <= Len(MatCalls)
    /\ MatCalls[callNo].fn = "mat_cmplx_mult"
    /\ pDst' = [t \in 0 .. 2 * dstInst.numRows * dstInst.numCols - 1 |-> junk]
    /\ pState' = ScratchOf(pState, 2 * cmplxB.numRows * cmplxB.numCols)
    /\ wlog' = <<>>
    /\ loc' = MatEntry(cmplxA, cmplxB, MatCalls[callNo].USE_DSP_RISCV)
    /\ IF RISCV_MATH_MATRIX_CHECK /\ CmplxSizeMismatch(cmplxA, cmplxB, dstInst)
       THEN status' = "RISCV_MATH_SIZE_MISMATCH" /\ pc' = "ret"
       ELSE status' = "none" /\ pc' = "cmplx_transpose"
    /\ UNCHANGED <<extV, convIn, matIn, vecIn, junk, callNo, pScratch1, pScratch2, results>>

cmplx_transpose_row ==
    /\ pc = "cmplx_transpose"
    /\ LET r == CmplxTransposeRow(loc, cmplxB.pData, pState)
           f == CmplxTransposeFlow(r.loc)
       IN  /\ pState' = r.S
           /\ wlog' = wlog \o r.st
           /\ pc' = f.pc
           /\ loc' = f.loc
    /\ UNCHANGED <<extV, convIn, matIn, vecIn, junk, callNo, pScratch1, pScratch2, results, pDst, status>>

cmplx_cell ==
    /\ pc = "cmplx_cell"
    /\ LET r == CmplxCell(loc, cmplxA.pData, pState)
           f == CmplxCellFlow(r.loc)
       IN  /\ pDst' = MatStore(pDst, r.st, 1)
           /\ wlog' = wlog \o r.st
           /\ pc' = f.pc
           /\ loc' = f.loc
           /\ status' = IF f.pc = "ret" THEN "RISCV_MATH_SUCCESS" ELSE status
    /\ UNCHANGED <<extV, convIn, matIn, vecIn, junk, callNo, pScratch1, pScratch2, results, pState>>

\* return (status): the caller's view of the call.
mat_return ==
    /\ pc = "ret"
    /\ results' = Append(results, [fn |-> MatCalls[callNo].fn,
                                   USE_DSP_RISCV |-> MatCalls[callNo].USE_DSP_RISCV,
                                   status |-> status, dst |-> pDst,
                                   scratch |-> pState, log |-> wlog])
    /\ callNo' = callNo + 1
    /\ pc' = "idle"
    /\ UNCHANGED <<extV, convIn, matIn, vecIn, junk, loc, pDst, wlog, pScratch1, pScratch2, pState, status>>

NextMat ==
    \/ mat_mult_fast_call
    \/ mat_transpose_row
    \/ mat_cell
    \/ mat_cmplx_mult_call
    \/ cmplx_transpose_row
    \/ cmplx_cell
    \/ mat_return

SpecMat == InitMat /\ [][NextMat]_vars

----------------------------------------------------------------------------
(* The matrix products the kernels are specified against. *)

\* Sum over k from k0 up of A[i][k] * B[k][j], A of p columns and B of n columns.
RECURSIVE MatSumFrom(_, _, _, _, _, _, _)
MatSumFrom(A, B, p, n, i, j, k) ==
    IF k >= p THEN W0
    ELSE WAdd(WMul(A[i * p + k], B[k * n + j]), MatSumFrom(A, B, p, n, i, j, k + 1))

MatSum(i, j) == MatSumFrom(matA.pData, matB.pData, matA.numCols, matB.numCols, i, j, 0)

\* Real part: sum over k of A[i][k].re * B[k][j].re - A[i][k].im * B[k][j].im.
RECURSIVE CmplxSumReFrom(_, _, _, _, _, _, _)
CmplxSumReFrom(A, B, p, n, i, j, k) ==
    IF k >= p THEN W0
    ELSE WAdd(WSub(WMul(A[2 * (i * p + k)], B[2 * (k * n + j)]),
                   WMul(A[2 * (i * p + k) + 1], B[2 * (k * n + j) + 1])),
              CmplxSumReFrom(A, B, p, n, i, j, k + 1))

\* Imaginary part: sum over k of A[i][k].re * B[k][j].im + A[i][k].im * B[k][j].re.
RECURSIVE CmplxSumImFrom(_, _, _, _, _, _, _)
CmplxSumImFrom(A, B, p, n, i, j, k) ==
    IF k >= p THEN W0
    ELSE WAdd(WAdd(WMul(A[2 * (i * p + k)], B[2 * (k * n + j) + 1]),
                   WMul(A[2 * (i * p + k) + 1], B[2 * (k * n + j)])),
              CmplxSumImFrom(A, B, p, n, i, j, k + 1))

\* The sum the claim gives for element idx of the interleaved complex destination.
CmplxSum(idx) ==
    LET i == (idx \div 2) \div cmplxB.numCols
        j == (idx \div 2) % cmplxB.numCols
    IN  IF idx % 2 = 0
        THEN CmplxSumReFrom(cmplxA.pData, cmplxB.pData, cmplxA.numCols, cmplxB.numCols, i, j, 0)
        ELSE CmplxSumImFrom(cmplxA.pData, cmplxB.pData, cmplxA.numCols, cmplxB.numCols, i, j, 0)

\* The dimensions of the two sources and of the destination agree.
DimsAgree ==
    /\ matA.numCols = matB.numRows
    /\ matA.numRows = dstInst.numRows
    /\ matB.numCols = dstInst.numCols

IsDstStore(e) == e.buf = "dst"

DstStores(lg) == SelectSeq(lg, IsDstStore)

\* The calls of fn that have returned.
ReturnedCalls(fn) == { c \in 1 .. Len(results) : results[c].fn = fn }

\* The store logs of the returned calls of fn and of a running one.
MatLogsOf(fn) ==
    { results[c].log : c \in ReturnedCalls(fn) }
    \cup (IF callNo <= Len(MatCalls) /\ pc # "idle" /\ MatCalls[callNo].fn = fn
          THEN {wlog} ELSE {})

MatAllDone == callNo = Len(MatCalls) + 1

----------------------------------------------------------------------------
(* Claims on the matrix kernels, checked under SpecMat. *)

\* C7: with agreeing dimensions riscv_mat_mult_fast_q15 returns success and stores
\* every dst[i][j] once, in row-major order, from the 32-bit accumulator of the sum
\* over k of A[i][k]*B[k][j]; when that sum fits in 32 bits and its >> 15 in 16 bits
\* dst[i][j] is the sum >> 15; the scalar and the packed path write the same values.
C7_MatMultFastComputesProduct ==
    DimsAgree =>
        /\ \A lg \in MatLogsOf("mat_mult_fast") :
              LET d == DstStores(lg)
              IN  \A k \in 1 .. Len(d) :
                     LET S == MatSum(d[k].idx \div matB.numCols, d[k].idx % matB.numCols)
                     IN  /\ d[k].idx = k - 1
                         /\ d[k].acc = Wrap32(S)
                         /\ (Fits32(S) /\ S.hi >= -32768 /\ S.hi <= 32767) => d[k].val = S.hi
        /\ \A c \in ReturnedCalls("mat_mult_fast") :
              /\ results[c].status = "RISCV_MATH_SUCCESS"
              /\ Len(DstStores(results[c].log)) = matA.numRows * matB.numCols
              /\ \A e \in 0 .. matA.numRows * matB.numCols - 1 :
                    results[c].dst[e] = DstStores(results[c].log)[e + 1].val
              /\ results[c].dst = results[1].dst

\* Both builds have returned on a 2 x 5 by 5 x 5 product (one unrolled pass and one
\* remaining column in the transposition and in the dot products) with a non-zero cell.
C7_Witness ==
    /\ callNo = 3
    /\ pc = "idle"
    /\ DimsAgree
    /\ matA.numRows = 2 /\ matA.numCols = 5 /\ matB.numCols = 5
    /\ results[2].USE_DSP_RISCV
    /\ results[2].status = "RISCV_MATH_SUCCESS"
    /\ \E e \in DOMAIN results[2].dst : results[2].dst[e] # 0 /\ results[2].dst[e] = MatSum(e \div 5, e % 5).hi

\* What a returned call shows of a rejected call: the mismatch status, no store, and
\* destination and scratch as they were handed in.
Rejected(r) ==
    /\ r.status = "RISCV_MATH_SIZE_MISMATCH"
    /\ r.log = <<>>
    /\ \A e \in DOMAIN r.dst : r.dst[e] = junk
    /\ \A e \in DOMAIN r.scratch : r.scratch[e] = junk

C9_CmplxStoresProduct ==
    DimsAgree =>
        \A lg \in MatLogsOf("mat_cmplx_mult") :
            LET d == DstStores(lg)
            IN  \A k \in 1 .. Len(d) :
                   /\ d[k].acc = CmplxSum(d[k].idx)
                   /\ d[k].val = SSAT16(CmplxSum(d[k].idx).hi)

\* C10: the packed path of riscv_mat_cmplx_mult_q15 writes the destination values
\* the scalar path writes.
C10_PackedEqualsScalar ==
    (MatAllDone /\ DimsAgree) => results[4].dst = results[3].dst

\* C11: every element riscv_mat_mult_fast_q15 stores is clamp(acc >> 15, -32768, 32767),
\* acc the 32-bit accumulator of the cell; no stored value is a wrapped acc >> 15.
C11_MatMultFastStoresSaturated ==
    \A lg \in MatLogsOf("mat_mult_fast") :
        LET d == DstStores(lg)
        IN  \A k \in 1 .. Len(d) : d[k].val = SSAT16(d[k].acc.hi)

----------------------------------------------------------------------------
(* Claims on the scratch buffers. *)

\* C12: with pScratch1 of max(lenA,lenB) + 2*min(lenA,lenB) - 2 cells and pScratch2 of
\* min(lenA,lenB) cells, riscv_conv_opt_q15 stores to and loads from no scratch index
\* outside them and loads only cells the same call has stored before (all stores
\* precede the first block); a call repeated on the scratch contents another call
\* left writes the output it wrote on the initial contents.
C12_OptScratchInBoundsAndWritten ==
    /\ Len0(pScratch1) = Max(Len0(srcA), Len0(srcB)) + 2 * Min(Len0(srcA), Len0(srcB)) - 2
    /\ Len0(pScratch2) = Min(Len0(srcA), Len0(srcB))
    /\ (callNo <= Len(ConvCalls) /\ ConvCalls[callNo].fn = "opt" /\ pc # "idle") =>
          /\ loc.wr1 \subseteq DOMAIN pScratch1
          /\ loc.wr2 \subseteq DOMAIN pScratch2
          /\ loc.rd1 \subseteq loc.wr1
          /\ loc.rd2 \subseteq loc.wr2
          /\ pc = "opt_blk4" =>
                /\ OptBlock4Reads(loc).rd1 \subseteq loc.wr1
                /\ OptBlock4Reads(loc).rd2 \subseteq loc.wr2
          /\ pc = "opt_single" =>
                /\ OptSingleReads(loc).rd1 \subseteq loc.wr1
                /\ OptSingleReads(loc).rd2 \subseteq loc.wr2
    /\ Len(results) >= 5 => results[5].dst = results[3].dst

\* The repeated call has returned on lengths 9 and 4 (the last pass of the 4-tap loop
\* of the last block ends at the last cell of scratch1); it found in scratch1 other
\* contents than the first call, loaded every cell of both buffers and wrote the
\* same output.
C12_Witness ==
    /\ pc = "ret"
    /\ callNo = 5
    /\ Max(Len0(srcA), Len0(srcB)) = 9
    /\ Min(Len0(srcA), Len0(srcB)) = 4
    /\ loc.rd1 = DOMAIN pScratch1
    /\ loc.rd2 = DOMAIN pScratch2
    /\ \E i \in DOMAIN pScratch1 : pScratch1[i] # junk
    /\ pDst = results[3].dst
    /\ \E i \in DOMAIN pDst : pDst[i] # 0

\* The scratch indices the running call has stored to.
ScratchStored == { wlog[k].idx : k \in { q \in 1 .. Len(wlog) : wlog[q].buf = "scratch" } }

\* pState holds the transpose of the real matrix B / of the complex matrix B.
HoldsTranspose(B) ==
    \A i \in 0 .. B.numRows - 1 : \A j \in 0 .. B.numCols - 1 :
        pState[j * B.numRows + i] = B.pData[i * B.numCols + j]

HoldsCmplxTranspose(B) ==
    \A i \in 0 .. B.numRows - 1 : \A j \in 0 .. B.numCols - 1 : \A q \in {0, 1} :
        pState[2 * (j * B.numRows + i) + q] = B.pData[2 * (i * B.numCols + j) + q]

----------------------------------------------------------------------------
\* The element-wise distance of two buffers of equal length is at most one.
WithinOneLsb(x, y) ==
    /\ DOMAIN x = DOMAIN y
    /\ \A t \in DOMAIN x : x[t] - y[t] \in {-1, 0, 1}

IsIdentity(M) == M = MatIdentity(M.numRows)

\* C14: riscv_mat_mult_fast_q15 of A and the identity with 0x7FFF on the diagonal,
\* and of that identity and A, returns success and writes a matrix every element of
\* which is within one least-significant bit of the element of A.
C14_IdentityProductWithinOneLsb ==
    \A c \in ReturnedCalls("mat_mult_fast") :
        /\ (DimsAgree /\ IsIdentity(matB)) =>
              /\ results[c].status = "RISCV_MATH_SUCCESS"
              /\ WithinOneLsb(results[c].dst, matA.pData)
        /\ (DimsAgree /\ IsIdentity(matA)) =>
              /\ results[c].status = "RISCV_MATH_SUCCESS"
              /\ WithinOneLsb(results[c].dst, matB.pData)

\* Both builds have returned on the 5 x 5 identity times a 5 x 5 matrix that holds
\* both ends of the Q15 range, and wrote a matrix that differs from it.
C14_Witness ==
    /\ callNo = 3
    /\ pc = "idle"
    /\ DimsAgree
    /\ IsIdentity(matA)
    /\ matA.numRows = 5 /\ matB.numCols = 5
    /\ \E t \in DOMAIN matB.pData : matB.pData[t] = -32768
    /\ \E t \in DOMAIN matB.pData : matB.pData[t] = 32767
    /\ results[1].dst # matB.pData
    /\ results[2].dst = results[1].dst
    /\ WithinOneLsb(results[2].dst, matB.pData)

----------------------------------------------------------------------------
(* The conversion kernels riscv_q15_to_q7 and riscv_q7_to_q15 and the      *)
(* element-wise kernels riscv_abs_q31, riscv_offset_q15 and riscv_shift_q7.*)
(* One step is one pass of a loop of the kernel.                           *)

\* Longest vector handed to a kernel.
MaxBlock == 5

INT32_MAX == 2147483647

INT32_MIN == -2147483647 - 1

\* (q7_t) of a wider value: the low 8 bits, two's complement.
CastQ7(v) == ((v + 128) % 256) - 128

\* pack2 and pack4: the arguments narrowed to the 16-bit and 8-bit lanes.
pack2(a, b) == << CastQ15(a), CastQ15(b) >>

pack4(a, b, c, d) == << CastQ7(a), CastQ7(b), CastQ7(c), CastQ7(d) >>

\* x >> n on an int that holds a q7_t or a q15_t, 0 <= n < 32: sign-propagating.
SraInt(x, n) == IF n >= 16 THEN (IF x < 0 THEN -1 ELSE 0) ELSE x \div (2 ^ n)

\* A shift of an int by 32 bits or more, or by a negative count, is undefined;
\* the outcomes are that of the shift instruction, which takes the low five bits
\* of the count, and the value with all bits shifted out.
ShiftUb == {"low5", "out"}

\* x >> n for any count.
SraAny(x, n, ub) ==
    IF n >= 0 /\ n < 32 THEN SraInt(x, n)
    ELSE IF ub = "low5" THEN SraInt(x, n % 32)
    ELSE IF x < 0 THEN -1 ELSE 0

\* sra2 and sra4: every lane shifted right, sign-propagating, by the count in the
\* same lane of the second operand.
sra2(u, v) == << SraInt(u[1], v[1]), SraInt(u[2], v[2]) >>

sra4(u, v, ub) ==
    << SraAny(u[1], v[1], ub), SraAny(u[2], v[2], ub),
       SraAny(u[3], v[3], ub), SraAny(u[4], v[4], ub) >>

\* x << s on a 32-bit int that holds a q15_t, 0 <= s < 32: the low 32 bits of
\* x * 2^s, two's complement (from bit 15 on, the low 17 - (s - 15) bits of x
\* moved up).
Shl32(x, s) ==
    IF s < 15 THEN WNorm(0, x * (2 ^ s))
    ELSE LET k == s - 15
             hiU == (x % (2 ^ (17 - k))) * (2 ^ k)
         IN  [hi |-> IF hiU >= 65536 THEN hiU - 131072 ELSE hiU, lo |-> 0]

\* x << s for any count s >= 0.
ShlAny(x, s, ub) ==
    IF s < 32 THEN Shl32(x, s)
    ELSE IF ub = "low5" THEN Shl32(x, s % 32)
    ELSE W0

\* clip(v, lo, hi) of a 32-bit value, for bounds inside the Q15 range.
ClipW(w, lo, hi) ==
    IF w.hi > 0 THEN hi
    ELSE IF w.hi < -1 THEN lo
    ELSE clip(w.hi * 32768 + w.lo, lo, hi)

\* __SSAT(v, 8) of a 32-bit value.
SSAT8(w) == ClipW(w, -128, 127)

\* The p.abs instruction: the absolute value in a 32-bit register.
pabs(x) == IF x = INT32_MIN THEN INT32_MIN ELSE IF x < 0 THEN -x ELSE x

\* The test of a loop that is followed by a loop over the rem remaining samples.
VecFlowPacked(l, rem, packed, single) ==
    IF l.blkCnt > 0 THEN [pc |-> packed, loc |-> l]
    ELSE IF rem > 0 THEN [pc |-> single, loc |-> [l EXCEPT !.blkCnt = rem]]
    ELSE [pc |-> "ret", loc |-> l]

\* The test of the last loop of a kernel.
VecFlowSingle(l, single) ==
    IF l.blkCnt > 0 THEN [pc |-> single, loc |-> l] ELSE [pc |-> "ret", loc |-> l]

\* The locals at entry; blkCnt is set by the kernel.
VecEntry(fn, dsp, S, cnt) ==
    [fn |-> fn, USE_DSP_RISCV |-> dsp, S |-> S, blockSize |-> Len0(S),
     pSrc |-> 0, pIn |-> 0, pDst |-> 0, blkCnt |-> cnt]

VecStoreAt(at, v) == [buf |-> "dst", idx |-> at, val |-> v]

----------------------------------------------------------------------------
(* riscv_q15_to_q7 *)

Q15ToQ7Entry(S, dsp) ==
    LET l == VecEntry("q15_to_q7", dsp, S, IF dsp THEN Len0(S) \div 2 ELSE Len0(S))
    IN  IF dsp THEN VecFlowPacked(l, l.blockSize % 2, "q15_to_q7_packed", "q15_to_q7_single")
        ELSE VecFlowSingle(l, "q15_to_q7_single")

\* One pass of the packed loop: two samples through sra2, pSrc advanced by two.
Q15ToQ7Packed(l) ==
    LET VectInA == << Rd(l.S, l.pSrc), Rd(l.S, l.pSrc + 1) >>
        VectInC == sra2(VectInA, pack2(8, 8))
        n == [l EXCEPT !.pSrc = l.pSrc + 2, !.pDst = l.pDst + 2, !.blkCnt = l.blkCnt - 1]
    IN  [st |-> << VecStoreAt(l.pDst, CastQ7(VectInC[1])),
                   VecStoreAt(l.pDst + 1, CastQ7(VectInC[2])) >>,
         flow |-> VecFlowPacked(n, n.blockSize % 2, "q15_to_q7_packed", "q15_to_q7_single")]

\* One pass of the last loop: *pDst++ = (q7_t) (*pIn++ >> 8).
Q15ToQ7Single(l) ==
    LET n == [l EXCEPT !.pIn = l.pIn + 1, !.pDst = l.pDst + 1, !.blkCnt = l.blkCnt - 1]
    IN  [st |-> << VecStoreAt(l.pDst, CastQ7(SraInt(Rd(l.S, l.pIn), 8))) >>,
         flow |-> VecFlowSingle(n, "q15_to_q7_single")]

----------------------------------------------------------------------------
(* riscv_q7_to_q15 *)

Q7ToQ15Entry(S, dsp) ==
    VecFlowSingle(VecEntry("q7_to_q15", dsp, S, Len0(S)), "q7_to_q15_single")

\* One pass of the loop: *pDst++ = (q15_t) *pIn++ << 8.
Q7ToQ15Single(l) ==
    LET n == [l EXCEPT !.pIn = l.pIn + 1, !.pDst = l.pDst + 1, !.blkCnt = l.blkCnt - 1]
    IN  [st |-> << VecStoreAt(l.pDst, CastQ15(CastQ15(Rd(l.S, l.pIn)) * 256)) >>,
         flow |-> VecFlowSingle(n, "q7_to_q15_single")]

----------------------------------------------------------------------------
(* riscv_abs_q31 *)

AbsQ31Entry(S, dsp) ==
    VecFlowSingle(VecEntry("abs_q31", dsp, S, Len0(S)), "abs_q31_single")

\* AbsQ31Single without the test for the most negative value.
AbsQ31Single_NoSat(l) ==
    LET in == Rd(l.S, l.pSrc)
        n == [l EXCEPT !.pSrc = l.pSrc + 1, !.pDst = l.pDst + 1, !.blkCnt = l.blkCnt - 1]
    IN  [st |-> << VecStoreAt(l.pDst, pabs(in)) >>,
         flow |-> VecFlowSingle(n, "abs_q31_single")]

\* One pass of the loop of the build: the test against 0x80000000 and p.abs, or
\* the conditional expression.
AbsQ31Single(l) ==
    LET in == Rd(l.S, l.pSrc)
        out == IF l.USE_DSP_RISCV
               THEN (IF in = INT32_MIN THEN INT32_MAX ELSE pabs(in))
               ELSE (IF in > 0 THEN in ELSE IF in = INT32_MIN THEN INT32_MAX ELSE -in)
        n == [l EXCEPT !.pSrc = l.pSrc + 1, !.pDst = l.pDst + 1, !.blkCnt = l.blkCnt - 1]
    IN  [st |-> << VecStoreAt(l.pDst, out) >>,
         flow |-> VecFlowSingle(n, "abs_q31_single")]

----------------------------------------------------------------------------
(* riscv_offset_q15 *)

OffsetQ15Entry(S, dsp) ==
    LET l == VecEntry("offset_q15", dsp, S, IF dsp THEN Len0(S) \div 2 ELSE Len0(S))
    IN  IF dsp THEN VecFlowPacked(l, l.blockSize % 2, "offset_q15_packed", "offset_q15_single")
        ELSE VecFlowSingle(l, "offset_q15_single")

\* One pass of the unrolled loop: two samples, each added to the offset and clipped.
OffsetQ15Packed(l, off) ==
    LET inA1 == Rd(l.S, l.pSrc)
        inA2 == Rd(l.S, l.pSrc + 1)
        n == [l EXCEPT !.pSrc = l.pSrc + 2, !.pDst = l.pDst + 2, !.blkCnt = l.blkCnt - 1]
    IN  [st |-> << VecStoreAt(l.pDst, CastQ15(clip(inA1 + off, -32768, 32767))),
                   VecStoreAt(l.pDst + 1, CastQ15(clip(inA2 + off, -32768, 32767))) >>,
         flow |-> VecFlowPacked(n, n.blockSize % 2, "offset_q15_packed", "offset_q15_single")]

\* OffsetQ15Single with the sum narrowed and not saturated.
OffsetQ15Single_NoSat(l, off) ==
    LET n == [l EXCEPT !.pSrc = l.pSrc + 1, !.pDst = l.pDst + 1, !.blkCnt = l.blkCnt - 1]
    IN  [st |-> << VecStoreAt(l.pDst, CastQ15(Rd(l.S, l.pSrc) + off)) >>,
         flow |-> VecFlowSingle(n, "offset_q15_single")]

\* One pass of a one-sample loop: clip in the packed build, __SSAT in the other.
OffsetQ15Single(l, off) ==
    LET sum == Rd(l.S, l.pSrc) + off
        out == IF l.USE_DSP_RISCV THEN clip(sum, -32768, 32767) ELSE SSAT16(sum)
        n == [l EXCEPT !.pSrc = l.pSrc + 1, !.pDst = l.pDst + 1, !.blkCnt = l.blkCnt - 1]
    IN  [st |-> << VecStoreAt(l.pDst, CastQ15(out)) >>,
         flow |-> VecFlowSingle(n, "offset_q15_single")]

----------------------------------------------------------------------------
(* riscv_shift_q7 *)

\* sign = (shiftBits & 0x80).
ShiftSign(sb) == IF sb < 0 THEN 128 ELSE 0

ShiftSinglePc(sb) == IF ShiftSign(sb) = 0 THEN "shift_q7_left" ELSE "shift_q7_right"

ShiftPackedPc(sb) == IF ShiftSign(sb) = 0 THEN "shift_q7_left4" ELSE "shift_q7_sra4"

ShiftQ7Entry(S, dsp, sb) ==
    LET l == VecEntry("shift_q7", dsp, S, IF dsp THEN Len0(S) \div 4 ELSE Len0(S))
    IN  IF dsp THEN VecFlowPacked(l, l.blockSize % 4, ShiftPackedPc(sb), ShiftSinglePc(sb))
        ELSE VecFlowSingle(l, ShiftSinglePc(sb))

\* One pass of the unrolled left-shift loop: four samples through clip.
ShiftQ7Left4(l, sb, ub) ==
    LET out(k) == CastQ7(ClipW(ShlAny(CastQ15(Rd(l.S, l.pSrc + k)), sb, ub), -128, 127))
        n == [l EXCEPT !.pSrc = l.pSrc + 4, !.pDst = l.pDst + 4, !.blkCnt = l.blkCnt - 1]
    IN  [st |-> << VecStoreAt(l.pDst, out(0)), VecStoreAt(l.pDst + 1, out(1)),
                   VecStoreAt(l.pDst + 2, out(2)), VecStoreAt(l.pDst + 3, out(3)) >>,
         flow |-> VecFlowPacked(n, n.blockSize % 4, "shift_q7_left4", "shift_q7_left")]

\* One pass of the packed right-shift loop: four samples through sra4.
ShiftQ7Sra4(l, sb, ub) ==
    LET VectInB == pack4(-sb, -sb, -sb, -sb)
        VectInA == << Rd(l.S, l.pSrc), Rd(l.S, l.pSrc + 1),
                      Rd(l.S, l.pSrc + 2), Rd(l.S, l.pSrc + 3) >>
        VectInC == sra4(VectInA, VectInB, ub)
        n == [l EXCEPT !.pSrc = l.pSrc + 4, !.pDst = l.pDst + 4, !.blkCnt = l.blkCnt - 1]
    IN  [st |-> << VecStoreAt(l.pDst, CastQ7(VectInC[1])), VecStoreAt(l.pDst + 1, CastQ7(VectInC[2])),
                   VecStoreAt(l.pDst + 2, CastQ7(VectInC[3])), VecStoreAt(l.pDst + 3, CastQ7(VectInC[4])) >>,
         flow |-> VecFlowPacked(n, n.blockSize % 4, "shift_q7_sra4", "shift_q7_right")]

\* One pass of the left-shift loop: *pDst++ = (q7_t) __SSAT(((q15_t) *pSrc++ << shiftBits), 8).
ShiftQ7Left(l, sb, ub) ==
    LET n == [l EXCEPT !.pSrc = l.pSrc + 1, !.pDst = l.pDst + 1, !.blkCnt = l.blkCnt - 1]
    IN  [st |-> << VecStoreAt(l.pDst, CastQ7(SSAT8(ShlAny(CastQ15(Rd(l.S, l.pSrc)), sb, ub)))) >>,
         flow |-> VecFlowSingle(n, "shift_q7_left")]

\* One pass of the right-shift loop: *pDst++ = (*pSrc++ >> -shiftBits).
ShiftQ7Right(l, sb, ub) ==
    LET n == [l EXCEPT !.pSrc = l.pSrc + 1, !.pDst = l.pDst + 1, !.blkCnt = l.blkCnt - 1]
    IN  [st |-> << VecStoreAt(l.pDst, CastQ7(SraAny(Rd(l.S, l.pSrc), -sb, ub))) >>,
         flow |-> VecFlowSingle(n, "shift_q7_right")]

----------------------------------------------------------------------------
(* riscv_fill_q7 *)

\* The entry with the packed loop count rounded up.
FillQ7Entry_RoundUp(n, dsp) ==
    LET l == [VecEntry("fill_q7", dsp, <<>>, IF dsp THEN (n + 3) \div 4 ELSE n)
                 EXCEPT !.blockSize = n]
    IN  IF dsp THEN VecFlowPacked(l, n % 4, "fill_q7_packed", "fill_q7_single")
        ELSE VecFlowSingle(l, "fill_q7_single")

FillQ7Entry(n, dsp) ==
    LET l == [VecEntry("fill_q7", dsp, <<>>, IF dsp THEN n \div 4 ELSE n)
                 EXCEPT !.blockSize = n]
    IN  IF dsp THEN VecFlowPacked(l, n % 4, "fill_q7_packed", "fill_q7_single")
        ELSE VecFlowSingle(l, "fill_q7_single")

\* One pass of the packed loop: *(charV*)pDst = VectInA, four cells.
FillQ7Packed(l, v) ==
    LET VectInA == pack4(v, v, v, v)
        n == [l EXCEPT !.pDst = l.pDst + 4, !.blkCnt = l.blkCnt - 1]
    IN  [st |-> << VecStoreAt(l.pDst, VectInA[1]), VecStoreAt(l.pDst + 1, VectInA[2]),
                   VecStoreAt(l.pDst + 2, VectInA[3]), VecStoreAt(l.pDst + 3, VectInA[4]) >>,
         flow |-> VecFlowPacked(n, n.blockSize % 4, "fill_q7_packed", "fill_q7_single")]

\* One pass of a one-cell loop: *pDst++ = value.
FillQ7Single(l, v) ==
    LET n == [l EXCEPT !.pDst = l.pDst + 1, !.blkCnt = l.blkCnt - 1]
    IN  [st |-> << VecStoreAt(l.pDst, v) >>,
         flow |-> VecFlowSingle(n, "fill_q7_single")]

----------------------------------------------------------------------------
(* The calls of the caller and their inputs. *)

\* The caller's program for each kernel: every kernel is called in the build
\* without and in the build with USE_DSP_RISCV on the same vector, and each
\* riscv_q15_to_q7 is followed by riscv_q7_to_q15 on its output.
VecCalls ==
    [ q15_to_q7 |-> << [fn |-> "q15_to_q7", USE_DSP_RISCV |-> FALSE, arg |-> "vecSrc"],
                       [fn |-> "q7_to_q15", USE_DSP_RISCV |-> FALSE, arg |-> "prev"],
                       [fn |-> "q15_to_q7", USE_DSP_RISCV |-> TRUE, arg |-> "vecSrc"],
                       [fn |-> "q7_to_q15", USE_DSP_RISCV |-> TRUE, arg |-> "prev"] >>,
      abs_q31 |-> << [fn |-> "abs_q31", USE_DSP_RISCV |-> FALSE, arg |-> "vecSrc"],
                     [fn |-> "abs_q31", USE_DSP_RISCV |-> TRUE, arg |-> "vecSrc"] >>,
      offset_q15 |-> << [fn |-> "offset_q15", USE_DSP_RISCV |-> FALSE, arg |-> "vecSrc"],
                        [fn |-> "offset_q15", USE_DSP_RISCV |-> TRUE, arg |-> "vecSrc"] >>,
      shift_q7 |-> << [fn |-> "shift_q7", USE_DSP_RISCV |-> FALSE, arg |-> "vecSrc"],
                      [fn |-> "shift_q7", USE_DSP_RISCV |-> TRUE, arg |-> "vecSrc"] >>,
      fill_q7 |-> << [fn |-> "fill_q7", USE_DSP_RISCV |-> FALSE, arg |-> "vecSrc"],
                     [fn |-> "fill_q7", USE_DSP_RISCV |-> TRUE, arg |-> "vecSrc"] >> ]

\* The call at hand and its input vector.
VecCall == VecCalls[kernel][callNo]

VecArg == IF VecCall.arg = "prev" THEN results[callNo - 1].dst ELSE vecSrc

\* Sample values: the ends of each range, the neighbours of zero and of the
\* multiples of 256.
Q15Vals == << -32768, -32767, -257, -256, -255, -1, 0, 1, 255, 256, 32767 >>

Q31Vals == << INT32_MIN, INT32_MIN + 1, -32768, -1, 0, 1, INT32_MAX >>

Q7Vals == << -128, -127, -64, -3, -1, 0, 1, 2, 64, 127 >>

OffsetVals == {-32768, -1, 0, 1, 32767}

\* Shift counts around the widths of the lane (8), of the q15_t (16) and of the
\* int (32), and the ends of the int8_t range.
ShiftVals ==
    {-128, -127, -33, -32, -31, -16, -9, -8, -7, -1,
     0, 1, 6, 7, 8, 24, 25, 30, 31, 32, 33, 127}

\* The vector of n samples that holds the values of vals from the s-th on, cyclically.
Cycled(vals, n, s) == [t \in 0 .. n - 1 |-> vals[((t + s) % Len(vals)) + 1]]

VecInputs ==
    { [kernel |-> "q15_to_q7", vecSrc |-> Cycled(Q15Vals, n, s), offset |-> 0, shiftBits |-> 0, value |-> 0, blockSize |-> n] :
        n \in 0 .. MaxBlock, s \in 0 .. Len(Q15Vals) - 1 }
    \cup
    { [kernel |-> "abs_q31", vecSrc |-> Cycled(Q31Vals, n, s), offset |-> 0, shiftBits |-> 0, value |-> 0, blockSize |-> n] :
        n \in 0 .. MaxBlock, s \in 0 .. Len(Q31Vals) - 1 }
    \cup
    { [kernel |-> "offset_q15", vecSrc |-> Cycled(Q15Vals, n, s), offset |-> o, shiftBits |-> 0, value |-> 0, blockSize |-> n] :
        n \in 0 .. MaxBlock, s \in 0 .. Len(Q15Vals) - 1, o \in OffsetVals }
    \cup
    { [kernel |-> "shift_q7", vecSrc |-> Cycled(Q7Vals, n, s), offset |-> 0, shiftBits |-> b, value |-> 0, blockSize |-> n] :
        n \in 0 .. MaxBlock, s \in 0 .. Len(Q7Vals) - 1, b \in ShiftVals }
    \cup
    { [kernel |-> "fill_q7", vecSrc |-> <<>>, offset |-> 0, shiftBits |-> 0, value |-> v, blockSize |-> n] :
        n \in 0 .. MaxBlock + 4, v \in {-128, -1, 127} }

InitVec ==
    /\ ExtIdle
    /\ \E in \in VecInputs :
          /\ kernel = in.kernel /\ vecSrc = in.vecSrc
          /\ offset = in.offset /\ shiftBits = in.shiftBits
          /\ fillValue = in.value /\ vecBlockSize = in.blockSize
    /\ junk \in JunkVals
    /\ callNo = 1
    /\ pc = "idle"
    /\ loc = [fn |-> "none"]
    /\ pDst = <<>>
    /\ wlog = <<>>
    /\ results = <<>>
    /\ srcA = <<>> /\ srcB = <<>>
    /\ pScratch1 = <<>> /\ pScratch2 = <<>>
    /\ matA = NoMat /\ matB = NoMat /\ cmplxA = NoMat /\ cmplxB = NoMat
    /\ dstInst = NoMat
    /\ pState = <<>>
    /\ RISCV_MATH_MATRIX_CHECK = FALSE
    /\ status = "none"

vecRest == <<extV, convIn, matIn, vecIn, pScratch1, pScratch2, pState, status, junk, callNo, results>>

\* The entry of kernel fn on the destination buffer of the call.
VecEnter(f) ==
    /\ pDst' = Arr(f.loc.blockSize, junk)
    /\ wlog' = <<>>
    /\ pc' = f.pc
    /\ loc' = f.loc
    /\ UNCHANGED vecRest

\* One pass of a loop: its stores and the test that follows.
VecStep(r) ==
    /\ pDst' = MatStore(pDst, r.st, 1)
    /\ wlog' = wlog \o r.st
    /\ pc' = r.flow.pc
    /\ loc' = r.flow.loc
    /\ UNCHANGED vecRest

q15_to_q7_call ==
    /\ pc = "idle"
    /\ callNo <= Len(VecCalls[kernel])
    /\ VecCall.fn = "q15_to_q7"
    /\ VecEnter(Q15ToQ7Entry(VecArg, VecCall.USE_DSP_RISCV))

q15_to_q7_packed ==
    /\ pc = "q15_to_q7_packed"
    /\ VecStep(Q15ToQ7Packed(loc))

q15_to_q7_single ==
    /\ pc = "q15_to_q7_single"
    /\ VecStep(Q15ToQ7Single(loc))

q7_to_q15_call ==
    /\ pc = "idle"
    /\ callNo <= Len(VecCalls[kernel])
    /\ VecCall.fn = "q7_to_q15"
    /\ VecEnter(Q7ToQ15Entry(VecArg, VecCall.USE_DSP_RISCV))

q7_to_q15_single ==
    /\ pc = "q7_to_q15_single"
    /\ VecStep(Q7ToQ15Single(loc))

abs_q31_call ==
    /\ pc = "idle"
    /\ callNo <= Len(VecCalls[kernel])
    /\ VecCall.fn = "abs_q31"
    /\ VecEnter(AbsQ31Entry(VecArg, VecCall.USE_DSP_RISCV))

abs_q31_single ==
    /\ pc = "abs_q31_single"
    /\ VecStep(AbsQ31Single(loc))

offset_q15_call ==
    /\ pc = "idle"
    /\ callNo <= Len(VecCalls[kernel])
    /\ VecCall.fn = "offset_q15"
    /\ VecEnter(OffsetQ15Entry(VecArg, VecCall.USE_DSP_RISCV))

offset_q15_packed ==
    /\ pc = "offset_q15_packed"
    /\ VecStep(OffsetQ15Packed(loc, offset))

offset_q15_single ==
    /\ pc = "offset_q15_single"
    /\ VecStep(OffsetQ15Single(loc, offset))

fill_q7_call ==
    /\ pc = "idle"
    /\ callNo <= Len(VecCalls[kernel])
    /\ VecCall.fn = "fill_q7"
    /\ VecEnter(FillQ7Entry(vecBlockSize, VecCall.USE_DSP_RISCV))

fill_q7_packed ==
    /\ pc = "fill_q7_packed"
    /\ VecStep(FillQ7Packed(loc, fillValue))

fill_q7_single ==
    /\ pc = "fill_q7_single"
    /\ VecStep(FillQ7Single(loc, fillValue))

shift_q7_call ==
    /\ pc = "idle"
    /\ callNo <= Len(VecCalls[kernel])
    /\ VecCall.fn = "shift_q7"
    /\ VecEnter(ShiftQ7Entry(VecArg, VecCall.USE_DSP_RISCV, shiftBits))

shift_q7_left4 ==
    /\ pc = "shift_q7_left4"
    /\ \E ub \in ShiftUb : VecStep(ShiftQ7Left4(loc, shiftBits, ub))

shift_q7_sra4 ==
    /\ pc = "shift_q7_sra4"
    /\ \E ub \in ShiftUb : VecStep(ShiftQ7Sra4(loc, shiftBits, ub))

shift_q7_left ==
    /\ pc = "shift_q7_left"
    /\ \E ub \in ShiftUb : VecStep(ShiftQ7Left(loc, shiftBits, ub))

shift_q7_right ==
    /\ pc = "shift_q7_right"
    /\ \E ub \in ShiftUb : VecStep(ShiftQ7Right(loc, shiftBits, ub))

vec_return ==
    /\ pc = "ret"
    /\ results' = Append(results, [fn |-> VecCall.fn,
                                   USE_DSP_RISCV |-> VecCall.USE_DSP_RISCV,
                                   src |-> loc.S, dst |-> pDst, log |-> wlog])
    /\ callNo' = callNo + 1
    /\ pc' = "idle"
    /\ UNCHANGED <<extV, convIn, matIn, vecIn, pState, status, junk, loc, pDst, wlog, pScratch1, pScratch2>>

NextVec ==
    \/ q15_to_q7_call
    \/ q15_to_q7_packed
    \/ q15_to_q7_single
    \/ q7_to_q15_call
    \/ q7_to_q15_single
    \/ abs_q31_call
    \/ abs_q31_single
    \/ offset_q15_call
    \/ offset_q15_packed
    \/ offset_q15_single
    \/ shift_q7_call
    \/ shift_q7_left4
    \/ shift_q7_sra4
    \/ shift_q7_left
    \/ shift_q7_right
    \/ fill_q7_call
    \/ fill_q7_packed
    \/ fill_q7_single
    \/ vec_return

SpecVec == InitVec /\ [][NextVec]_vars

----------------------------------------------------------------------------
(* Claims on the conversion and element-wise kernels, checked under SpecVec. *)

\* floor(x / 2^n) for a sample of at most 16 bits.
FloorShift(x, n) == IF n >= 16 THEN (IF x < 0 THEN -1 ELSE 0) ELSE x \div (2 ^ n)

\* C15: riscv_q15_to_q7 stores dst[n] = src[n] >> 8 = floor(src[n] / 256) for every
\* n < blockSize, on the scalar and on the packed path, the last element of an odd
\* blockSize included.
C15_Q15ToQ7ShiftsEverySample ==
    \A c \in ReturnedCalls("q15_to_q7") :
        /\ DOMAIN results[c].dst = DOMAIN vecSrc
        /\ \A n \in DOMAIN vecSrc : results[c].dst[n] = FloorShift(vecSrc[n], 8)

\* C16: riscv_q7_to_q15 of the output of riscv_q15_to_q7 is, element by element,
\* the input with its low 8 bits cleared, 256 * floor(x / 256).
C16_RoundTripClearsLowBits ==
    \A c \in ReturnedCalls("q7_to_q15") :
        /\ DOMAIN results[c].dst = DOMAIN vecSrc
        /\ \A n \in DOMAIN vecSrc : results[c].dst[n] = 256 * (vecSrc[n] \div 256)

\* C17: riscv_abs_q31 stores |x| for x # -2^31 and 0x7FFFFFFF for x = -2^31, on the
\* scalar path and on the p.abs path alike; no stored value is negative.
C17_AbsQ31Saturates ==
    \A c \in ReturnedCalls("abs_q31") :
        /\ DOMAIN results[c].dst = DOMAIN vecSrc
        /\ \A n \in DOMAIN vecSrc :
              LET x == vecSrc[n]
              IN  /\ results[c].dst[n] =
                        (IF x = INT32_MIN THEN INT32_MAX ELSE IF x < 0 THEN 0 - x ELSE x)
                  /\ results[c].dst[n] >= 0

\* Both builds have returned on a vector that holds -2^31, a negative and a
\* positive value, and stored 0x7FFFFFFF for the first.
C17_Witness ==
    /\ kernel = "abs_q31"
    /\ callNo = 3
    /\ pc = "idle"
    /\ \E n \in DOMAIN vecSrc :
          /\ vecSrc[n] = INT32_MIN
          /\ results[1].dst[n] = INT32_MAX
          /\ results[2].dst[n] = INT32_MAX
    /\ \E n \in DOMAIN vecSrc : vecSrc[n] = -32768 /\ results[2].dst[n] = 32768
    /\ \E n \in DOMAIN vecSrc : vecSrc[n] = 1 /\ results[2].dst[n] = 1

\* C18: riscv_offset_q15 stores dst[n] = clamp(src[n] + offset, -32768, 32767) for
\* every n < blockSize, on the scalar path and on the packed path, the remaining
\* element of an odd blockSize included.
C18_OffsetQ15Saturates ==
    \A c \in ReturnedCalls("offset_q15") :
        /\ DOMAIN results[c].dst = DOMAIN vecSrc
        /\ \A n \in DOMAIN vecSrc :
              results[c].dst[n] = Max(-32768, Min(32767, vecSrc[n] + offset))

\* Both builds have returned on five samples and a positive offset: the sum of the
\* remaining (fifth) sample is above the range and 32767 is stored, the sum of
\* another sample is inside the range.
C18_Witness ==
    /\ kernel = "offset_q15"
    /\ callNo = 3
    /\ pc = "idle"
    /\ Len0(vecSrc) = 5
    /\ offset > 0
    /\ vecSrc[4] + offset > 32767
    /\ results[1].dst[4] = 32767
    /\ results[2].dst[4] = 32767
    /\ \E n \in 0 .. 3 : vecSrc[n] < 0 /\ results[2].dst[n] = vecSrc[n] + offset

\* C19: for shiftBits in 0 .. 127 riscv_shift_q7 stores clamp(x * 2^shiftBits, -128, 127):
\* 127 for a positive x whose product is above the range, -128 for a negative one.
C19_ShiftLeftSaturates ==
    \A c \in ReturnedCalls("shift_q7") :
        shiftBits >= 0 =>
            /\ DOMAIN results[c].dst = DOMAIN vecSrc
            /\ \A n \in DOMAIN vecSrc :
                  LET x == vecSrc[n]
                  IN  results[c].dst[n] =
                         (IF x = 0 THEN 0
                          ELSE IF shiftBits >= 8 THEN (IF x > 0 THEN 127 ELSE -128)
                          ELSE Max(-128, Min(127, x * (2 ^ shiftBits))))

\* C20: for shiftBits in -128 .. -1 riscv_shift_q7 stores floor(x / 2^(-shiftBits)),
\* on the scalar path and on the sra4 path.
C20_ShiftRightIsFloor ==
    \A c \in ReturnedCalls("shift_q7") :
        shiftBits < 0 =>
            /\ DOMAIN results[c].dst = DOMAIN vecSrc
            /\ \A n \in DOMAIN vecSrc :
                  results[c].dst[n] = FloorShift(vecSrc[n], 0 - shiftBits)

----------------------------------------------------------------------------
\* The kernels of claim C21.
FrameKernels == {"q15_to_q7", "fill_q7", "shift_q7"}

\* The log lg holds one store to each of the cells 0 .. n-1 and no other store.
StoresEachOnce(lg, n) ==
    /\ Len(lg) = n
    /\ \A i \in 0 .. n - 1 : Cardinality({ k \in 1 .. Len(lg) : lg[k].idx = i }) = 1

\* C21: riscv_q15_to_q7, riscv_fill_q7 and riscv_shift_q7 write the destination
\* elements 0 .. blockSize-1, each once, and no element from blockSize on, on the
\* scalar and on the packed path, for every blockSize >= 0.
C21_WritesExactlyTheBlock ==
    /\ (pc # "idle" /\ loc.fn \in FrameKernels) =>
          \A k \in 1 .. Len(wlog) : wlog[k].idx \in 0 .. vecBlockSize - 1
    /\ \A c \in 1 .. Len(results) :
          results[c].fn \in FrameKernels => StoresEachOnce(results[c].log, vecBlockSize)

\* Both builds of riscv_fill_q7 have returned on a blockSize of one packed pass and
\* one remaining cell, and filled the five cells.
C21_Witness ==
    /\ kernel = "fill_q7"
    /\ callNo = 3
    /\ pc = "idle"
    /\ vecBlockSize = 5
    /\ Len(results[1].log) = 5
    /\ Len(results[2].log) = 5
    /\ results[2].dst = Arr(5, fillValue)
    /\ results[1].dst = results[2].dst

----------------------------------------------------------------------------
(* Two kernel invocations running concurrently.  The buffers of both calls    *)
(* lie in one address space, mem, each buffer directly behind a buffer of the *)
(* other call; a pointer is the base of its buffer plus an index, and a load  *)
(* or store through it reaches whatever cell that address names.  Each step   *)
(* is one pass of a loop of one invocation, taken on the memory as the other  *)
(* invocation has left it; the locals of an invocation are its own.           *)

ParLen == 3

ParDim == 2

Threads == {1, 2}

Other(t) == 3 - t

\* The calls of the first and of the second invocation.
ParCalls(t) ==
    IF t = 1
    THEN { [fn |-> "opt", A |-> Coded(la), B |-> Step(lb, lb, 3)] :
             la \in 1 .. ParLen, lb \in 1 .. ParLen }
    ELSE { [fn |-> "opt", A |-> Step(la, la, -5), B |-> Coded(lb)] :
             la \in 1 .. ParLen, lb \in 1 .. ParLen }
         \cup
         { [fn |-> "mat_mult_fast", A |-> MatCodedB(m, p), B |-> MatConst(p, n, 7),
            USE_DSP_RISCV |-> d] :
             m \in 1 .. 2, p \in {ParDim, ParDim + 2}, n \in 1 .. ParDim, d \in BOOLEAN }

\* The lengths of the buffers a call is given: riscv_conv_opt_q15 its two inputs,
\* pScratch1, pScratch2 and pDst; riscv_mat_mult_fast_q15 the pData of its two
\* sources, pState and the pData of its destination.
ParBufLens(c) ==
    IF c.fn = "opt"
    THEN LET la == Len0(c.A)
             lb == Len0(c.B)
         IN  <<la, lb, Max(la, lb) + 2 * Min(la, lb) - 2, Min(la, lb), la + lb - 1>>
    ELSE <<c.A.numRows * c.A.numCols, c.B.numRows * c.B.numCols,
           c.B.numRows * c.B.numCols, c.A.numRows * c.B.numCols, 0>>

\* What the caller has put into buffer k of its call before the call.
ParBufInit(c, k) ==
    IF k = 1 THEN (IF c.fn = "opt" THEN c.A ELSE c.A.pData)
    ELSE IF k = 2 THEN (IF c.fn = "opt" THEN c.B ELSE c.B.pData)
    ELSE Arr(ParBufLens(c)[k], junk)

\* Buffer k of invocation t lies behind buffers 1 .. k-1 of both invocations and,
\* for the second invocation, behind buffer k of the first.
RECURSIVE ParBase(_, _, _, _)
ParBase(c1, c2, t, k) ==
    IF k = 1 THEN (IF t = 1 THEN 0 ELSE ParBufLens(c1)[1])
    ELSE ParBase(c1, c2, 2, k - 1) + ParBufLens(c2)[k - 1]
         + (IF t = 1 THEN 0 ELSE ParBufLens(c1)[k])

ParBufs(c1, c2, t) ==
    [k \in 1 .. 5 |-> [base |-> ParBase(c1, c2, t, k),
                       len |-> ParBufLens(IF t = 1 THEN c1 ELSE c2)[k]]]

ParMemSize(c1, c2) == ParBase(c1, c2, 2, 5) + ParBufLens(c2)[5]

ParMemInit(c1, c2) ==
    [a \in 0 .. ParMemSize(c1, c2) - 1 |->
       LET own == { <<t, k>> \in Threads \X (1 .. 5) :
                      LET b == ParBufs(c1, c2, t)[k]
                      IN  a \in b.base .. b.base + b.len - 1 }
           tk == CHOOSE x \in own : TRUE
       IN  ParBufInit(IF tk[1] = 1 THEN c1 ELSE c2, tk[2])[a - ParBufs(c1, c2, tk[1])[tk[2]].base]]

\* The cells of a buffer, as the call's caller sees them.
ParCells(b) == [i \in 0 .. b.len - 1 |-> mem[b.base + i]]

\* The memory as a pointer to the buffer's first element sees it: index i is the
\* cell at base + i, inside the buffer or not.
ParView(b) == [i \in (0 - b.base) .. (Len0(mem) - 1 - b.base) |-> mem[b.base + i]]

\* The memory after the stores a step made through a view.
ParFromView(b, v) == [a \in DOMAIN mem |-> v[a - b.base]]

\* The memory after the stores of the function f (index |-> value) through the
\* pointer to buffer b.
ParStoreFn(m, b, f) ==
    [a \in DOMAIN m |-> IF (a - b.base) \in DOMAIN f THEN f[a - b.base] ELSE m[a]]

\* The addresses of the stores of f through the pointer to buffer b, as a sequence.
RECURSIVE ParAddrs(_, _)
ParAddrs(b, idxs) ==
    IF idxs = {} THEN <<>>
    ELSE LET i == CHOOSE x \in idxs : \A y \in idxs : x <= y
         IN  <<b.base + i>> \o ParAddrs(b, idxs \ {i})

InitPar ==
    /\ SpiIdle
    /\ IntIdle
    /\ junk \in JunkVals
    /\ \E c1 \in ParCalls(1), c2 \in ParCalls(2) :
          /\ mem = ParMemInit(c1, c2)
          /\ thr = [t \in Threads |->
                      [call |-> IF t = 1 THEN c1 ELSE c2,
                       buf |-> ParBufs(c1, c2, t),
                       pc |-> "idle", loc |-> [fn |-> "none"],
                       st |-> <<>>, overlap |-> FALSE]]
    /\ srcA = <<>> /\ srcB = <<>>
    /\ pScratch1 = <<>> /\ pScratch2 = <<>>
    /\ matA = NoMat /\ matB = NoMat /\ cmplxA = NoMat /\ cmplxB = NoMat
    /\ dstInst = NoMat
    /\ pState = <<>>
    /\ RISCV_MATH_MATRIX_CHECK = FALSE
    /\ status = "none"
    /\ callNo = 1
    /\ pc = "idle"
    /\ loc = [fn |-> "none"]
    /\ pDst = <<>>
    /\ wlog = <<>>
    /\ results = <<>>
    /\ vecSrc = <<>> /\ offset = 0 /\ shiftBits = 0 /\ kernel = "none"
    /\ fillValue = 0 /\ vecBlockSize = 0

\* Invocation t is inside its kernel.
Running(t) == thr[t].pc \notin {"idle", "done"}

\* Invocation t moves to f.pc with the locals f.loc, having stored to the
\* addresses adr.
ParMove(t, f, adr) ==
    thr' = [thr EXCEPT ![t].pc = f.pc, ![t].loc = f.loc,
                       ![t].st = thr[t].st \o adr,
                       ![t].overlap = thr[t].overlap \/ Running(Other(t))]

par_opt_call ==
    \E t \in Threads :
        /\ thr[t].pc = "idle"
        /\ thr[t].call.fn = "opt"
        /\ LET b == thr[t].buf
               e == OptEntry(ParCells(b[1]), ParCells(b[2]))
               f == OptFlow("blk4", [srcALen |-> e.srcALen, srcBLen |-> e.srcBLen,
                                     pScratch1 |-> e.pScratch1, pOut |-> e.pOut,
                                     py |-> e.py, blkCnt |-> e.blkCnt,
                                     wr1 |-> DOMAIN e.scr1, wr2 |-> DOMAIN e.scr2,
                                     rd1 |-> {}, rd2 |-> {}])
           IN  /\ mem' = ParStoreFn(ParStoreFn(mem, b[4], e.scr2), b[3], e.scr1)
               /\ ParMove(t, f, ParAddrs(b[4], DOMAIN e.scr2) \o ParAddrs(b[3], DOMAIN e.scr1))
        /\ UNCHANGED <<kernV, spiV, intV>>

par_opt_block4 ==
    \E t \in Threads :
        /\ thr[t].pc = "opt_blk4"
        /\ LET b == thr[t].buf
               l == thr[t].loc
               r == OptBlock4(l, ParView(b[3]), ParView(b[4]))
           IN  /\ mem' = ParFromView(b[5], StoreAll(ParView(b[5]), l.pOut, r.out, 1))
               /\ ParMove(t, OptFlow("blk4", r.loc),
                          [i \in 1 .. Len(r.out) |-> b[5].base + l.pOut + i - 1])
        /\ UNCHANGED <<kernV, spiV, intV>>

par_opt_single ==
    \E t \in Threads :
        /\ thr[t].pc = "opt_single"
        /\ LET b == thr[t].buf
               l == thr[t].loc
               r == OptSingle(l, ParView(b[3]), ParView(b[4]))
           IN  /\ mem' = ParFromView(b[5], StoreAll(ParView(b[5]), l.pOut, r.out, 1))
               /\ ParMove(t, OptFlow("single", r.loc),
                          [i \in 1 .. Len(r.out) |-> b[5].base + l.pOut + i - 1])
        /\ UNCHANGED <<kernV, spiV, intV>>

par_mat_call ==
    \E t \in Threads :
        /\ thr[t].pc = "idle"
        /\ thr[t].call.fn = "mat_mult_fast"
        /\ LET c == thr[t].call
               D == [numRows |-> c.A.numRows, numCols |-> c.B.numCols]
               l == MatEntry(c.A, c.B, c.USE_DSP_RISCV)
           IN  ParMove(t, IF RISCV_MATH_MATRIX_CHECK /\ MatSizeMismatch(c.A, c.B, D)
                          THEN [pc |-> "ret", loc |-> l]
                          ELSE [pc |-> "mat_transpose", loc |-> l], <<>>)
        /\ UNCHANGED <<kernV, spiV, intV, mem>>

par_mat_transpose_row ==
    \E t \in Threads :
        /\ thr[t].pc = "mat_transpose"
        /\ LET b == thr[t].buf
               r == MatTransposeRow(thr[t].loc, ParView(b[2]), ParView(b[3]))
           IN  /\ mem' = ParFromView(b[3], r.S)
               /\ ParMove(t, MatTransposeFlow(r.loc),
                          [i \in 1 .. Len(r.st) |-> b[3].base + r.st[i].idx])
        /\ UNCHANGED <<kernV, spiV, intV>>

par_mat_cell ==
    \E t \in Threads :
        /\ thr[t].pc = "mat_cell"
        /\ LET b == thr[t].buf
               r == MatCell(thr[t].loc, ParView(b[1]), ParView(b[3]))
           IN  /\ mem' = ParFromView(b[4], MatStore(ParView(b[4]), r.st, 1))
               /\ ParMove(t, MatCellFlow(r.loc),
                          [i \in 1 .. Len(r.st) |-> b[4].base + r.st[i].idx])
        /\ UNCHANGED <<kernV, spiV, intV>>

par_return ==
    \E t \in Threads :
        /\ thr[t].pc = "ret"
        /\ ParMove(t, [pc |-> "done", loc |-> thr[t].loc], <<>>)
        /\ UNCHANGED <<kernV, spiV, intV, mem>>

NextPar ==
    \/ par_opt_call
    \/ par_opt_block4
    \/ par_opt_single
    \/ par_mat_call
    \/ par_mat_transpose_row
    \/ par_mat_cell
    \/ par_return

SpecPar == InitPar /\ [][NextPar]_vars

\* The same calls run alone, each on buffers of its own: the passes of the kernel
\* from the loop head pcx on, up to its return; the value is the destination.
RECURSIVE OptAlone(_, _, _, _, _)
OptAlone(pcx, l, S1, S2, D) ==
    IF pcx = "opt_blk4"
    THEN LET r == OptBlock4(l, S1, S2)
             f == OptFlow("blk4", r.loc)
         IN  OptAlone(f.pc, f.loc, S1, S2, StoreAll(D, l.pOut, r.out, 1))
    ELSE IF pcx = "opt_single"
    THEN LET r == OptSingle(l, S1, S2)
             f == OptFlow("single", r.loc)
         IN  OptAlone(f.pc, f.loc, S1, S2, StoreAll(D, l.pOut, r.out, 1))
    ELSE D

RECURSIVE MatAlone(_, _, _, _, _, _)
MatAlone(pcx, l, A, B, S, D) ==
    IF pcx = "mat_transpose"
    THEN LET r == MatTransposeRow(l, B, S)
             f == MatTransposeFlow(r.loc)
         IN  MatAlone(f.pc, f.loc, A, B, r.S, D)
    ELSE IF pcx = "mat_cell"
    THEN LET r == MatCell(l, A, S)
             f == MatCellFlow(r.loc)
         IN  MatAlone(f.pc, f.loc, A, B, S, MatStore(D, r.st, 1))
    ELSE D

\* The destination buffer call c leaves when it is the only call running.
AloneDst(c) ==
    IF c.fn = "opt"
    THEN LET e == OptEntry(c.A, c.B)
             f == OptFlow("blk4", [srcALen |-> e.srcALen, srcBLen |-> e.srcBLen,
                                   pScratch1 |-> e.pScratch1, pOut |-> e.pOut,
                                   py |-> e.py, blkCnt |-> e.blkCnt,
                                   wr1 |-> DOMAIN e.scr1, wr2 |-> DOMAIN e.scr2,
                                   rd1 |-> {}, rd2 |-> {}])
         IN  OptAlone(f.pc, f.loc,
                      ParStoreFn(Arr(ParBufLens(c)[3], junk), [base |-> 0], e.scr1),
                      ParStoreFn(Arr(ParBufLens(c)[4], junk), [base |-> 0], e.scr2),
                      Arr(ParBufLens(c)[5], junk))
    ELSE MatAlone("mat_transpose", MatEntry(c.A, c.B, c.USE_DSP_RISCV),
                  c.A.pData, c.B.pData,
                  Arr(ParBufLens(c)[3], junk), Arr(ParBufLens(c)[4], junk))

\* The buffer of invocation t that holds its output.
DstBuf(t) == thr[t].buf[IF thr[t].call.fn = "opt" THEN 5 ELSE 4]

\* The addresses of the buffers invocation t may store to: its scratch buffers and
\* its destination.
OwnWritable(t) ==
    UNION { thr[t].buf[k].base .. thr[t].buf[k].base + thr[t].buf[k].len - 1 :
              k \in (IF thr[t].call.fn = "opt" THEN {3, 4, 5} ELSE {3, 4}) }

\* The inputs of invocation t, as its caller passed them.
InputsIntact(t) ==
    /\ ParCells(thr[t].buf[1]) = ParBufInit(thr[t].call, 1)
    /\ ParCells(thr[t].buf[2]) = ParBufInit(thr[t].call, 2)

----------------------------------------------------------------------------
(* The SPI loader (fpga/sw/apps/spi_loader/main.c).  A file is a sequence of   *)
(* lines: an entry line "ADDR_DATA" or a line of 18 or more characters.  The   *)
(* system calls open, lseek, read, malloc, write, ioctl and mmap succeed or    *)
(* fail as the environment chooses, at most MaxFaults times in a run.          *)

MaxEntries == 4

MaxFaults == 1

NUM_ENTRIES == 32768

\* The data word of line k, most significant byte first as the file spells it.
SpiWord(k) == <<k % 256, (160 + k) % 256, (176 + k) % 256, (192 + k) % 256>>

\* __bswap_32 of a word given by its four bytes.
bswap_32(w) == <<w[4], w[3], w[2], w[1]>>

\* The files: n entry lines, line k+1 following line k at distance gaps[k] (4 is the
\* next word); a file of consecutive words two entries longer than the longest
\* block; a file with a line too long in place of its first line.
RECURSIVE SpiAddrOf(_, _, _)
SpiAddrOf(first, gaps, k) ==
    IF k = 1 THEN first ELSE SpiAddrOf(first, gaps, k - 1) + gaps[k - 1]

SpiEntryLines(n, first, gaps) ==
    [k \in 1 .. n |-> [kind |-> "entry", addr |-> SpiAddrOf(first, gaps, k), data |-> SpiWord(k)]]

SpiGaps(n) == IF n <= 1 THEN {<<>>} ELSE [1 .. n - 1 -> {4, 8}]

SpiFiles ==
    UNION { { SpiEntryLines(n, 256, g) : g \in SpiGaps(n) } : n \in 0 .. MaxEntries }
    \cup
    { [k \in 1 .. 255 + 2 |-> [kind |-> "entry", addr |-> 256 + 4 * (k - 1), data |-> SpiWord(k)]] }
    \cup
    { [k \in 1 .. n |-> IF k = bad THEN [kind |-> "long"]
                        ELSE SpiEntryLines(n, 256, [j \in 1 .. n - 1 |-> 4])[k]] :
        n \in 1 .. 2, bad \in 1 .. 1 }

\* A pointer malloc has not returned and a descriptor open has not returned: what
\* an uninitialised local can hold besides the values below.
WildPtr == [ptr |-> -1]

NullPtr == [ptr |-> 0]

InitSpi ==
    /\ ParIdle
    /\ IntIdle
    /\ spiFile \in SpiFiles
    /\ spiPc = "main"
    /\ spiLoc = [entries |-> 0, addr |-> <<>>, data |-> <<>>, line |-> 1,
                 i |-> 0, start_idx |-> 0, pfRet |-> <<>>,   \* pfRet, exit: <<>> until returned
                 fd |-> -1, buffer |-> NullPtr, exit |-> <<>>]
    /\ spiEnv = [fds |-> {}, heap |-> {}, next |-> 3, gpio |-> "unset", faults |-> 0]
    /\ spiCalls = <<>>
    /\ ctrl = <<>>
    /\ junk = 0
    /\ srcA = <<>> /\ srcB = <<>>
    /\ pScratch1 = <<>> /\ pScratch2 = <<>>
    /\ matA = NoMat /\ matB = NoMat /\ cmplxA = NoMat /\ cmplxB = NoMat
    /\ dstInst = NoMat
    /\ pState = <<>>
    /\ RISCV_MATH_MATRIX_CHECK = FALSE
    /\ status = "none"
    /\ callNo = 1
    /\ pc = "idle"
    /\ loc = [fn |-> "none"]
    /\ pDst = <<>>
    /\ wlog = <<>>
    /\ results = <<>>
    /\ vecSrc = <<>> /\ offset = 0 /\ shiftBits = 0 /\ kernel = "none"
    /\ fillValue = 0 /\ vecBlockSize = 0

\* The outcomes the environment may still choose: every failure counts as a fault.
Allowed(outs) == { o \in outs : o = "ok" \/ spiEnv.faults < MaxFaults }

Faulted(env, o) == [env EXCEPT !.faults = IF o = "ok" THEN @ ELSE @ + 1]

\* pulp_ctrl(fetch_en, reset): the control register is written when /dev/mem could
\* be opened and mapped; reset is active low (bit 31 set releases it), bit 0 is
\* fetch enable.  The value is the environment after the call and the return value.
pulp_ctrl(fetch_en, reset, o, env) ==
    IF o = "ok"
    THEN [retval |-> 0,
          env |-> [env EXCEPT !.gpio = [reset_n |-> (reset = 0), fetch |-> (fetch_en # 0)]]]
    ELSE [retval |-> -1, env |-> env]

PulpCtrlOutcomes == {"ok", "open", "mmap"}

\* What the uninitialised fd and rd_buf of spi_load hold at the label fail on the
\* paths that reach it before their first assignment.
FdGarbage == {-1, spiLoc.fd}

RdGarbage(wr_buf) == {NullPtr, WildPtr, wr_buf}

SpiOutcomes == {"ok", "wr_malloc", "open", "write", "rd_malloc", "ioctl"}

SpiGarbage(o) ==
    IF o = "wr_malloc" THEN { [fd |-> f, rd_buf |-> r] : f \in FdGarbage, r \in {NullPtr, WildPtr} }
    ELSE IF o \in {"open", "write"}
    THEN { [fd |-> -1, rd_buf |-> r] : r \in RdGarbage([ptr |-> spiEnv.next]) }
    ELSE { [fd |-> -1, rd_buf |-> NullPtr] }

Ev(op, arg) == [op |-> op, arg |-> arg]

\* The label fail: close(fd), free(wr_buf) and free(rd_buf) when not NULL.
SpiFail(fd, wr_buf, rd_buf) ==
    <<Ev("close", fd)>>
    \o (IF wr_buf # NullPtr THEN <<Ev("free", wr_buf)>> ELSE <<>>)
    \o (IF rd_buf # NullPtr THEN <<Ev("free", rd_buf)>> ELSE <<>>)

\* spi_load(addr, in_buf, in_size) on the path o, with g in the locals not yet
\* assigned: the system calls made, in order, and the return value.  p1 and p2
\* are the pointers malloc returns, d the descriptor open returns.
spi_load(addr, in_buf, in_size, o, g, next) ==
    LET p1 == [ptr |-> next]
        d  == next + 1
        p2 == [ptr |-> next + 2]
        size == IF in_size % 4 = 0 THEN in_size ELSE (in_size - (in_size % 4)) + 4
        m1 == <<Ev("malloc", p1)>>
        op == <<Ev("open", d)>>
        wr == <<Ev("write", [addr |-> addr, data |-> in_buf, len |-> size + 5])>>
        m2 == <<Ev("malloc", p2)>>
        io == <<Ev("ioctl", [addr |-> addr, len |-> size + 17])>>
    IN  IF o = "wr_malloc"
        THEN [retval |-> -1, ev |-> <<Ev("malloc", NullPtr)>> \o SpiFail(g.fd, NullPtr, g.rd_buf)]
        ELSE IF o = "open"
        THEN [retval |-> -1, ev |-> m1 \o <<Ev("open", -1)>> \o SpiFail(-1, p1, g.rd_buf)]
        ELSE IF o = "write"
        THEN [retval |-> -1, ev |-> m1 \o op \o <<Ev("write", "short")>> \o SpiFail(d, p1, g.rd_buf)]
        ELSE IF o = "rd_malloc"
        THEN [retval |-> -1, ev |-> m1 \o op \o wr \o <<Ev("malloc", NullPtr)>> \o SpiFail(d, p1, NullPtr)]
        ELSE IF o = "ioctl"
        THEN [retval |-> -1, ev |-> m1 \o op \o wr \o m2 \o <<Ev("ioctl", "failed")>> \o SpiFail(d, p1, p2)]
        ELSE [retval |-> 0, ev |-> m1 \o op \o wr \o m2 \o io \o SpiFail(d, p1, p2)]

\* The descriptors and allocations left after the system calls ev.
RECURSIVE SpiApply(_, _, _)
SpiApply(env, ev, k) ==
    IF k > Len(ev) THEN env
    ELSE LET e == ev[k]
             env1 == IF e.op = "open" /\ e.arg # -1 THEN [env EXCEPT !.fds = @ \cup {e.arg}]
                     ELSE IF e.op = "close" THEN [env EXCEPT !.fds = @ \ {e.arg}]
                     ELSE IF e.op = "malloc" /\ e.arg # NullPtr THEN [env EXCEPT !.heap = @ \cup {e.arg}]
                     ELSE IF e.op = "free" THEN [env EXCEPT !.heap = @ \ {e.arg}]
                     ELSE env
         IN  SpiApply(env1, ev, k + 1)

\* main up to the reset of the device: clock_manager, the argument count, open,
\* lseek, malloc, lseek and read of the file.
main_open ==
    /\ spiPc = "main"
    /\ \E o \in Allowed({"ok", "argc", "open", "lseek_end", "malloc", "lseek_set", "read"}) :
          LET d == spiEnv.next
              p == [ptr |-> spiEnv.next + 1]
              env == Faulted(spiEnv, o)
              code == IF o \in {"argc", "open", "lseek_end", "lseek_set"} THEN 1 ELSE -1
          IN  IF o = "ok" \/ (o = "malloc" /\ spiFile = <<>>)
              THEN /\ spiPc' = "reset1"
                   /\ spiLoc' = [spiLoc EXCEPT !.fd = d, !.buffer = IF o = "ok" THEN p ELSE NullPtr]
                   /\ spiEnv' = [env EXCEPT !.fds = @ \cup {d},
                                            !.heap = IF o = "ok" THEN @ \cup {p} ELSE @,
                                            !.next = @ + 2]
              ELSE /\ spiPc' = "exit"
                   /\ spiLoc' = [spiLoc EXCEPT !.exit = <<code>>,
                                               !.fd = IF o \in {"argc", "open"} THEN -1 ELSE d]
                   /\ spiEnv' = [env EXCEPT !.fds = IF o \in {"lseek_end", "lseek_set"}
                                                    THEN @ \cup {d} ELSE @,
                                            !.heap = IF o \in {"lseek_set", "read"}
                                                     THEN @ \cup {p} ELSE @,
                                            !.next = @ + 2]
    /\ UNCHANGED <<kernV, parV, intV, spiFile, spiCalls, ctrl>>

\* A pulp_ctrl call of main, from position at to position to.
MainCtrl(at, to, fetch_en, reset) ==
    /\ spiPc = at
    /\ \E o \in Allowed(PulpCtrlOutcomes) :
          LET r == pulp_ctrl(fetch_en, reset, o, Faulted(spiEnv, o))
          IN  /\ spiEnv' = r.env
              /\ ctrl' = Append(ctrl, [fetch_en |-> fetch_en, reset |-> reset, retval |-> r.retval])
    /\ spiPc' = to
    /\ UNCHANGED <<kernV, parV, intV, spiFile, spiLoc, spiCalls>>

\* pulp_ctrl(0, 1)
main_reset ==
    /\ spiPc = "reset1"
    /\ MainCtrl("reset1", "reset2", 0, 1)

\* pulp_ctrl(0, 0)
main_release ==
    /\ spiPc = "reset2"
    /\ MainCtrl("reset2", "pf_line", 0, 0)

\* process_file: one pass of the loop over the lines.
process_file_line ==
    /\ spiPc = "pf_line"
    /\ spiLoc.line <= Len(spiFile)
    /\ LET ln == spiFile[spiLoc.line]
       IN  IF ln.kind = "long"
           THEN /\ spiLoc' = [spiLoc EXCEPT !.pfRet = <<-1>>]
                /\ spiPc' = "start"
           ELSE /\ spiLoc' = [spiLoc EXCEPT !.addr = Append(@, ln.addr),
                                            !.data = Append(@, bswap_32(ln.data)),
                                            !.entries = @ + 1,
                                            !.line = @ + 1,
                                            !.pfRet = IF spiLoc.entries + 1 = NUM_ENTRIES
                                                      THEN <<-1>> ELSE @]
                /\ spiPc' = IF spiLoc.entries + 1 = NUM_ENTRIES THEN "start" ELSE "pf_line"
    /\ UNCHANGED <<kernV, parV, intV, spiFile, spiEnv, spiCalls, ctrl>>

\* process_file after the last line: no entries is a failure, otherwise the loop
\* over the entries starts at i = 1 with start_idx = 0.
process_file_entries ==
    /\ spiPc = "pf_line"
    /\ spiLoc.line > Len(spiFile)
    /\ IF spiLoc.entries = 0
       THEN /\ spiLoc' = [spiLoc EXCEPT !.pfRet = <<-1>>]
            /\ spiPc' = "start"
       ELSE /\ spiLoc' = [spiLoc EXCEPT !.i = 1, !.start_idx = 0]
            /\ spiPc' = "pf_for"
    /\ UNCHANGED <<kernV, parV, intV, spiFile, spiEnv, spiCalls, ctrl>>

\* The test that ends a block at entry i.  addr is indexed from 1 here, from 0 in
\* the source.
BlockEnds(l) ==
    \/ l.addr[l.i + 1] # l.addr[l.i] + 4
    \/ l.i - l.start_idx = 255
    \/ l.i = l.entries - 1

\* process_file: the test of the for loop and of the if inside it.
process_file_for ==
    /\ spiPc = "pf_for"
    /\ IF spiLoc.i < spiLoc.entries
       THEN IF BlockEnds(spiLoc)
            THEN spiPc' = "spi_load" /\ spiLoc' = spiLoc
            ELSE spiPc' = "pf_for" /\ spiLoc' = [spiLoc EXCEPT !.i = @ + 1]
       ELSE spiPc' = "start" /\ spiLoc' = [spiLoc EXCEPT !.pfRet = <<0>>]
    /\ UNCHANGED <<kernV, parV, intV, spiFile, spiEnv, spiCalls, ctrl>>

\* process_file: spi_load(addr[start_idx], &data[start_idx], (i - start_idx + 1) * 4),
\* start_idx = i and the end of the loop body.  The return value is not used.
process_file_send ==
    /\ spiPc = "spi_load"
    /\ \E o \in Allowed(SpiOutcomes) : \E g \in SpiGarbage(o) :
          LET l == spiLoc
              n == l.i - l.start_idx + 1
              r == spi_load(l.addr[l.start_idx + 1],
                            SubSeq(l.data, l.start_idx + 1, Min(l.start_idx + n, Len(l.data))),
                            n * 4, o, g, spiEnv.next)
          IN  /\ spiCalls' = Append(spiCalls,
                                    [addr |-> l.addr[l.start_idx + 1], start |-> l.start_idx,
                                     len |-> n, out |-> o, retval |-> r.retval, ev |-> r.ev])
              /\ spiEnv' = [SpiApply(Faulted(spiEnv, o), r.ev, 1) EXCEPT !.next = @ + 3]
    /\ spiLoc' = [spiLoc EXCEPT !.start_idx = spiLoc.i, !.i = @ + 1]
    /\ spiPc' = "pf_for"
    /\ UNCHANGED <<kernV, parV, intV, spiFile, ctrl>>

\* pulp_ctrl(1, 0), whatever process_file returned.
main_start ==
    /\ spiPc = "start"
    /\ MainCtrl("start", "main_ret", 1, 0)

\* free(buffer); close(fd); return 0
main_return ==
    /\ spiPc = "main_ret"
    /\ spiPc' = "exit"
    /\ spiLoc' = [spiLoc EXCEPT !.exit = <<0>>]
    /\ spiEnv' = [spiEnv EXCEPT !.fds = @ \ {spiLoc.fd}, !.heap = @ \ {spiLoc.buffer}]
    /\ UNCHANGED <<kernV, parV, intV, spiFile, spiCalls, ctrl>>

NextSpi ==
    \/ main_open
    \/ main_reset
    \/ main_release
    \/ process_file_line
    \/ process_file_entries
    \/ process_file_for
    \/ process_file_send
    \/ main_start
    \/ main_return

SpecSpi == InitSpi /\ [][NextSpi]_vars

----------------------------------------------------------------------------
(* Claims on the SPI loader, checked under SpecSpi. *)

\* Entry e (counted from 0) is word j of the block of call c.
InBlock(c, e, j) == j \in 0 .. spiCalls[c].len - 1 /\ spiCalls[c].start + j = e

\* C24: when process_file returns 0, the data word of every entry i has been passed
\* to spi_load for the device address addr[i]: it is word j of a block sent to an
\* address a with a + 4*j = addr[i].
C24_EveryEntrySent ==
    spiLoc.pfRet = <<0>> =>
        \A e \in 0 .. spiLoc.entries - 1 :
            \E c \in 1 .. Len(spiCalls) : \E j \in 0 .. spiCalls[c].len - 1 :
                /\ InBlock(c, e, j)
                /\ spiCalls[c].addr + 4 * j = spiLoc.addr[e + 1]

\* C25: every block process_file sends covers consecutive addresses: for the call
\* spi_load(addr[s], &data[s], 4*len), addr[s+j] = addr[s] + 4*j for 0 <= j < len.
C25_BlocksConsecutive ==
    \A c \in 1 .. Len(spiCalls) : \A j \in 0 .. spiCalls[c].len - 1 :
        spiLoc.addr[spiCalls[c].start + j + 1] = spiCalls[c].addr + 4 * j

\* C26: main calls pulp_ctrl(1, 0) only after pulp_ctrl(0, 1) and pulp_ctrl(0, 0),
\* in this order, and after process_file returned 0 with every block sent; when
\* process_file fails the device is not started.
C26_FetchOnlyAfterLoad ==
    \A k \in 1 .. Len(ctrl) :
        ctrl[k].fetch_en = 1 =>
            /\ k = 3
            /\ ctrl[1].fetch_en = 0 /\ ctrl[1].reset = 1
            /\ ctrl[2].fetch_en = 0 /\ ctrl[2].reset = 0
            /\ spiLoc.pfRet = <<0>>
            /\ \A c \in 1 .. Len(spiCalls) : spiCalls[c].retval = 0

\* The arguments of the system calls op among the first n of ev.
ArgsOf(ev, op, n) == { ev[k].arg : k \in { h \in 1 .. n : ev[h].op = op } }

CountOf(ev, op, arg) == Cardinality({ k \in 1 .. Len(ev) : ev[k].op = op /\ ev[k].arg = arg })

\* C30: on every path through spi_load, close is called only on a descriptor open
\* has returned and free only on a pointer malloc has returned, each at most once,
\* every descriptor and pointer acquired is released, and the return value is -1 on
\* each failure and 0 on success.
C30_SpiLoadReleasesExactly ==
    \A c \in 1 .. Len(spiCalls) :
        LET ev == spiCalls[c].ev
            n == Len(ev)
        IN  /\ \A k \in 1 .. n :
                  /\ ev[k].op = "close" =>
                        /\ ev[k].arg # -1
                        /\ ev[k].arg \in ArgsOf(ev, "open", k - 1)
                        /\ CountOf(ev, "close", ev[k].arg) = 1
                  /\ ev[k].op = "free" =>
                        /\ ev[k].arg # NullPtr
                        /\ ev[k].arg \in ArgsOf(ev, "malloc", k - 1)
                        /\ CountOf(ev, "free", ev[k].arg) = 1
            /\ ArgsOf(ev, "open", n) \ {-1} = ArgsOf(ev, "close", n)
            /\ ArgsOf(ev, "malloc", n) \ {NullPtr} = ArgsOf(ev, "free", n)
            /\ spiCalls[c].retval = IF spiCalls[c].out = "ok" THEN 0 ELSE -1

----------------------------------------------------------------------------
(* The interrupt handlers table (sw/libs/sys_lib/src/int.c).  A program calls  *)
(* int_init and then int_add up to MaxAdds times; int_add stores the handler   *)
(* and then the argument, and an interrupt may arrive before, between and      *)
(* after the two stores.  int_main runs to its end once entered.               *)

MaxAdds == 2

\* int.h: the number of entries of int_handlers.
MAX_INT_HANDLERS == 32

\* The irq arguments, handlers and arguments of the int_add calls.
IrqVals == {5, MAX_INT_HANDLERS - 1, MAX_INT_HANDLERS, MAX_INT_HANDLERS + 8}

HandlerArgs == { [handler |-> "h1", arg |-> 1], [handler |-> "h2", arg |-> 2] }

\* mcause: bit 31 and the value of the bits below it.
McauseVals == { [bit31 |-> b, low |-> v] : b \in BOOLEAN, v \in {5, MAX_INT_HANDLERS - 1, MAX_INT_HANDLERS + 5} }

StubEntry == [handler |-> "handler_stub", arg |-> 0]

InitInt ==
    /\ ParIdle
    /\ SpiIdle
    /\ int_handlers = [i \in 0 .. MAX_INT_HANDLERS - 1 |-> [handler |-> "NULL", arg |-> 0]]
    /\ ICP = {}
    /\ intPc = "boot"
    /\ intLoc = [irq |-> 0, handler |-> "NULL", arg |-> 0]
    /\ intCalls = <<>>
    /\ intDisp = [mcause |-> [bit31 |-> FALSE, low |-> 0], calls |-> <<>>]
    /\ intWritten = {}
    /\ junk = 0
    /\ srcA = <<>> /\ srcB = <<>>
    /\ pScratch1 = <<>> /\ pScratch2 = <<>>
    /\ matA = NoMat /\ matB = NoMat /\ cmplxA = NoMat /\ cmplxB = NoMat
    /\ dstInst = NoMat
    /\ pState = <<>>
    /\ RISCV_MATH_MATRIX_CHECK = FALSE
    /\ status = "none"
    /\ callNo = 1
    /\ pc = "idle"
    /\ loc = [fn |-> "none"]
    /\ pDst = <<>>
    /\ wlog = <<>>
    /\ results = <<>>
    /\ vecSrc = <<>> /\ offset = 0 /\ shiftBits = 0 /\ kernel = "none"
    /\ fillValue = 0 /\ vecBlockSize = 0

\* int_init: every entry becomes (handler_stub, 0).
int_init ==
    /\ intPc = "boot"
    /\ int_handlers' = [i \in 0 .. MAX_INT_HANDLERS - 1 |-> StubEntry]
    /\ intPc' = "idle"
    /\ UNCHANGED <<kernV, parV, spiV, ICP, intLoc, intCalls, intDisp, intWritten>>

\* The test of int_add that rejects an irq.
IrqRejected_Above(irq) == irq > MAX_INT_HANDLERS

IrqRejected(irq) == irq >= MAX_INT_HANDLERS

\* A store to field f of entry irq of the table.
TableStore_NextSlot(tab, irq, f, v) ==
    IF irq + 1 \in DOMAIN tab
    THEN [tab EXCEPT ![irq + 1] = IF f = "handler" THEN [@ EXCEPT !.handler = v]
                                  ELSE [@ EXCEPT !.arg = v]]
    ELSE tab

TableStore(tab, irq, f, v) ==
    IF irq \in DOMAIN tab
    THEN [tab EXCEPT ![irq] = IF f = "handler" THEN [@ EXCEPT !.handler = v]
                              ELSE [@ EXCEPT !.arg = v]]
    ELSE tab

\* int_add(irq, handler, arg) up to its first store: return 0 for an irq outside
\* the table, otherwise int_handlers[irq].handler = handler.
int_add_handler ==
    /\ intPc = "idle"
    /\ Len(intCalls) < MaxAdds
    /\ \E irq \in IrqVals, ha \in HandlerArgs :
          IF IrqRejected(irq)
          THEN /\ intCalls' = Append(intCalls, [irq |-> irq, handler |-> ha.handler,
                                                arg |-> ha.arg, ret |-> 0])
               /\ UNCHANGED <<int_handlers, intPc, intLoc, intWritten>>
          ELSE /\ int_handlers' = TableStore(int_handlers, irq, "handler", ha.handler)
               /\ intWritten' = intWritten \cup {irq}
               /\ intLoc' = [irq |-> irq, handler |-> ha.handler, arg |-> ha.arg]
               /\ intPc' = "add_arg"
               /\ UNCHANGED intCalls
    /\ UNCHANGED <<kernV, parV, spiV, ICP, intDisp>>

\* int_add from its second store on: int_handlers[irq].arg = arg; return 1.
int_add_arg ==
    /\ intPc = "add_arg"
    /\ int_handlers' = TableStore(int_handlers, intLoc.irq, "arg", intLoc.arg)
    /\ intWritten' = intWritten \cup {intLoc.irq}
    /\ intCalls' = Append(intCalls, [irq |-> intLoc.irq, handler |-> intLoc.handler,
                                     arg |-> intLoc.arg, ret |-> 1])
    /\ intPc' = "idle"
    /\ UNCHANGED <<kernV, parV, spiV, ICP, intLoc, intDisp>>

\* 1 << mcause: the bit written to ICP.  A count that is negative (bit 31 of mcause
\* set) or 32 or more is undefined: the low five bits of the count, or no bit.
IcpBits(mcause, ub) ==
    IF ~mcause.bit31 /\ mcause.low < 32 THEN {mcause.low}
    ELSE IF ub = "low5" THEN {mcause.low % 32}
    ELSE {}

\* int_main: with bit 31 of mcause set, the handler of entry mcause & 0x1F is called
\* with the argument of that entry; then ICP = (1 << mcause).
int_main ==
    /\ intPc \in {"idle", "add_arg"}
    /\ \E mcause \in McauseVals, ub \in ShiftUb :
          LET n == mcause.low % 32
          IN  /\ intDisp' = [mcause |-> mcause,
                             calls |-> IF mcause.bit31
                                       THEN << [n |-> n, handler |-> int_handlers[n].handler,
                                                arg |-> int_handlers[n].arg] >>
                                       ELSE <<>>]
              /\ ICP' = IcpBits(mcause, ub)
    /\ UNCHANGED <<kernV, parV, spiV, int_handlers, intPc, intLoc, intCalls, intWritten>>

NextInt ==
    \/ int_init
    \/ int_add_handler
    \/ int_add_arg
    \/ int_main

SpecInt == InitInt /\ [][NextInt]_vars

----------------------------------------------------------------------------
(* Claims on the interrupt table, checked under SpecInt. *)

\* The pair of the last int_add call naming irq that returned 1 among the first k
\* calls, (handler_stub, 0) when there is none.
RECURSIVE LastAdded(_, _)
LastAdded(irq, k) ==
    IF k = 0 THEN StubEntry
    ELSE IF intCalls[k].irq = irq /\ intCalls[k].ret = 1
         THEN [handler |-> intCalls[k].handler, arg |-> intCalls[k].arg]
         ELSE LastAdded(irq, k - 1)

\* C27: after int_init and any sequence of int_add calls every entry of
\* int_handlers holds (handler_stub, 0) or the pair of the most recent int_add call
\* for its irq that returned 1, and an entry changes only in an int_add call that
\* names its irq (or in int_init).
C27_SlotsHoldLastAdded ==
    /\ [](intPc = "idle" =>
            /\ DOMAIN int_handlers = 0 .. MAX_INT_HANDLERS - 1
            /\ \A s \in 0 .. MAX_INT_HANDLERS - 1 :
                  int_handlers[s] = LastAdded(s, Len(intCalls)))
    /\ [][\A s \in 0 .. MAX_INT_HANDLERS - 1 :
             (intPc # "boot" /\ int_handlers'[s] # int_handlers[s]) =>
                 /\ intPc' = "add_arg" \/ intPc = "add_arg"
                 /\ intLoc'.irq = s]_vars

\* Two int_add calls for the last entry of the table have returned 1: the entry
\* holds the pair of the second, every other entry (handler_stub, 0).
C27_Witness ==
    /\ intPc = "idle"
    /\ Len(intCalls) = 2
    /\ intCalls[1].irq = MAX_INT_HANDLERS - 1 /\ intCalls[1].handler = "h1"
    /\ intCalls[2].irq = MAX_INT_HANDLERS - 1 /\ intCalls[2].handler = "h2"
    /\ int_handlers[MAX_INT_HANDLERS - 1] = [handler |-> "h2", arg |-> 2]
    /\ int_handlers[5] = StubEntry

\* C28: int_add returns 0 for irq >= MAX_INT_HANDLERS and 1 for irq below it, a
\* call that returns 0 leaves the table as it was, and no index outside
\* 0 .. MAX_INT_HANDLERS-1 is ever stored to.
C28_IntAddRejectsOutOfRange ==
    /\ [](/\ intWritten \subseteq 0 .. MAX_INT_HANDLERS - 1
          /\ \A k \in 1 .. Len(intCalls) :
                intCalls[k].ret = IF intCalls[k].irq >= MAX_INT_HANDLERS THEN 0 ELSE 1)
    /\ [][(Len(intCalls') > Len(intCalls) /\ intCalls'[Len(intCalls')].ret = 0) =>
             /\ int_handlers' = int_handlers
             /\ intWritten' = intWritten]_vars

\* int_add(MAX_INT_HANDLERS, ...) has returned 0 and int_add(MAX_INT_HANDLERS - 1,
\* ...) has returned 1 with both stores made.
C28_Witness ==
    /\ intPc = "idle"
    /\ Len(intCalls) = 2
    /\ intCalls[1].irq = MAX_INT_HANDLERS /\ intCalls[1].ret = 0
    /\ intCalls[2].irq = MAX_INT_HANDLERS - 1 /\ intCalls[2].ret = 1
    /\ intWritten = {MAX_INT_HANDLERS - 1}
    /\ int_handlers[MAX_INT_HANDLERS - 1] = [handler |-> intCalls[2].handler, arg |-> intCalls[2].arg]

\* The pairs registered for irq n: (handler_stub, 0), the pairs of the int_add calls
\* for n that returned 1, and the pair of the int_add call for n in progress.
PairsOf(n) ==
    {StubEntry}
    \cup { [handler |-> intCalls[k].handler, arg |-> intCalls[k].arg] :
             k \in { h \in 1 .. Len(intCalls) : intCalls[h].irq = n /\ intCalls[h].ret = 1 } }
    \cup (IF intPc = "add_arg" /\ intLoc.irq = n
          THEN {[handler |-> intLoc.handler, arg |-> intLoc.arg]} ELSE {})

\* C29: int_main calls no handler when bit 31 of mcause is clear; when it is set it
\* calls exactly one handler, that of entry n = mcause & 0x1F, with the argument
\* registered together with it: the pair of one int_add call for n or the initial
\* (handler_stub, 0), also when the interrupt arrives between the two stores of an
\* int_add call for n.
C29_DispatchCallsRegisteredPair ==
    intPc # "boot" =>
        IF intDisp.mcause.bit31
        THEN /\ Len(intDisp.calls) = 1
             /\ intDisp.calls[1].n = intDisp.mcause.low % 32
             /\ [handler |-> intDisp.calls[1].handler, arg |-> intDisp.calls[1].arg]
                   \in PairsOf(intDisp.calls[1].n)
        ELSE intDisp.calls = <<>>

====
